---- MODULE Spec2Model ----
(***************************************************************************)
(* A model of the Monkey interpreter front end: lexer (lexer/lexer.go),    *)
(* Pratt parser (parser/parser.go) and AST printer (ast/ast.go).           *)
(*                                                                         *)
(* Text is a sequence of one-character strings, so that the lexer can      *)
(* index it byte by byte as the Go code does.  Go positions are 0-based,   *)
(* TLA+ sequences 1-based: input[i] in Go is input[i + 1] here.            *)
(***************************************************************************)
EXTENDS Integers, Sequences, FiniteSets, TLC

VARIABLES input, p, program, pc, out, prev, lx, tokens,
          heap, ret, log, stdout, lines

\* the state of a run over a lexer alone: the lexer and the tokens returned
lexVars == <<lx, tokens>>

\* the state of a parse: the parser, the Program, its text and its origin
parseVars == <<p, program, out, prev>>

\* the state of an evaluation: the environments, the value the last call
\* returned and the record of what the evaluation did
evalVars == <<heap, ret, log>>

\* the reader and the writer of the REPL
replVars == <<stdout, lines>>

vars == <<input, p, program, pc, out, prev, lx, tokens,
          heap, ret, log, stdout, lines>>

(***************************************************************************)
(* Bytes                                                                   *)
(***************************************************************************)

\* the byte 0 that readChar stores in l.ch at the end of the input
NUL == "NUL"

Letters ==
  { "a", "b", "c", "d", "e", "f", "g", "h", "i", "j", "k", "l", "m",
    "n", "o", "p", "q", "r", "s", "t", "u", "v", "w", "x", "y", "z",
    "A", "B", "C", "D", "E", "F", "G", "H", "I", "J", "K", "L", "M",
    "N", "O", "P", "Q", "R", "S", "T", "U", "V", "W", "X", "Y", "Z", "_" }

Digits == { "0", "1", "2", "3", "4", "5", "6", "7", "8", "9" }

\* the function taking digits for letters as well
isLetterOrDigit(ch) == ch \in Letters \cup Digits

isLetter(ch) == ch \in Letters

isDigit(ch) == ch \in Digits

\* the text of a byte sequence, as one string (for messages and for reading)
RECURSIVE Str(_)
Str(s) == IF s = <<>> THEN "" ELSE s[1] \o Str(Tail(s))

(***************************************************************************)
(* token/token.go                                                          *)
(***************************************************************************)

ILLEGAL   == "ILLEGAL"
EOF       == "EOF"
IDENT     == "IDENT"
INT       == "INT"
ASSIGN    == "="
PLUS      == "+"
MINUS     == "-"
ASTERISK  == "*"
SLASH     == "/"
COMMA     == ","
SEMICOLON == ";"
LPAREN    == "("
RPAREN    == ")"
LBRACE    == "{"
RBRACE    == "}"
FUNCTION  == "FUNCTION"
LET_      == "LET"

\* Kinds the lexer and the parser use and whose declaration is not in the
\* token.go at hand; their names follow the data model of the language.
STRING_   == "STRING"
BANG      == "!"
LT        == "<"
GT        == ">"
EQ        == "=="
NOT_EQ    == "!="
TRUE_     == "TRUE"
FALSE_    == "FALSE"
IF_       == "IF"
ELSE_     == "ELSE"
RETURN    == "RETURN"

keywords ==
  [ w \in { <<"f", "n">>, <<"l", "e", "t">>, <<"t", "r", "u", "e">>,
            <<"f", "a", "l", "s", "e">>, <<"i", "f">>,
            <<"e", "l", "s", "e">>, <<"r", "e", "t", "u", "r", "n">> } |->
      CASE w = <<"f", "n">>                          -> FUNCTION
        [] w = <<"l", "e", "t">>                     -> LET_
        [] w = <<"t", "r", "u", "e">>                -> TRUE_
        [] w = <<"f", "a", "l", "s", "e">>           -> FALSE_
        [] w = <<"i", "f">>                          -> IF_
        [] w = <<"e", "l", "s", "e">>                -> ELSE_
        [] w = <<"r", "e", "t", "u", "r", "n">>      -> RETURN ]

LookupIdent(ident) ==
  IF ident \in DOMAIN keywords THEN keywords[ident] ELSE IDENT

Token(type, literal) == [Type |-> type, Literal |-> literal]

(***************************************************************************)
(* lexer/lexer.go                                                          *)
(***************************************************************************)

readChar(l) ==
  [l EXCEPT !.ch = IF l.readPosition >= Len(l.input)
                     THEN NUL
                     ELSE l.input[l.readPosition + 1],
            !.position = l.readPosition,
            !.readPosition = l.readPosition + 1]

LexerNew(in) ==
  readChar([input |-> in, position |-> 0, readPosition |-> 0, ch |-> NUL])

\* the function reading at l.position, the current byte, instead of at
\* l.readPosition
peekCharAtPosition(l) ==
  IF l.position >= Len(l.input) THEN NUL ELSE l.input[l.position + 1]

peekChar(l) ==
  IF l.readPosition >= Len(l.input) THEN NUL ELSE l.input[l.readPosition + 1]

\* bytes above 0x7F, as they occur in the UTF-8 text of a non-ASCII rune
\* (0xC3 0xA9 is U+00E9)
HighBytes == { "0xC3", "0xA9" }

\* the Go conversion string(ch) of a byte: the UTF-8 text of the rune whose
\* number is ch, one byte below 0x80 and two bytes from 0x80 on
stringOfByte(ch) ==
  CASE ch = "0xC3" -> <<"0xC3", "0x83">>
    [] ch = "0xA9" -> <<"0xC2", "0xA9">>
    [] OTHER -> <<ch>>

newToken(tokenType, ch) == Token(tokenType, stringOfByte(ch))

RECURSIVE skipWhitespace(_)
skipWhitespace(l) ==
  IF l.ch = " " \/ l.ch = "\t" \/ l.ch = "\n" \/ l.ch = "\r"
    THEN skipWhitespace(readChar(l))
    ELSE l

\* the lexer after the loop of readIdentifier; the identifier is
\* input[position : l.position]
RECURSIVE readIdentifierLoop(_)
readIdentifierLoop(l) ==
  IF isLetter(l.ch) THEN readIdentifierLoop(readChar(l)) ELSE l

readIdentifier(l) ==
  LET position == l.position
      l2 == readIdentifierLoop(l)
  IN  [l |-> l2, s |-> SubSeq(l.input, position + 1, l2.position)]

RECURSIVE readNumberLoop(_)
readNumberLoop(l) ==
  IF isDigit(l.ch) THEN readNumberLoop(readChar(l)) ELSE l

readNumber(l) ==
  LET position == l.position
      l2 == readNumberLoop(l)
  IN  [l |-> l2, s |-> SubSeq(l.input, position + 1, l2.position)]

RECURSIVE readStringLoop(_)
readStringLoop(l) ==
  LET l2 == readChar(l)
  IN  IF l2.ch = "\"" \/ l2.ch = NUL THEN l2 ELSE readStringLoop(l2)

readString(l) ==
  LET position == l.position + 1
      l2 == readStringLoop(l)
  IN  [l |-> l2, s |-> SubSeq(l.input, position + 1, l2.position)]

SingleCharKinds ==
  { SEMICOLON, LPAREN, RPAREN, COMMA, PLUS, MINUS, SLASH, ASTERISK,
    LT, GT, LBRACE, RBRACE }

\* NextToken returns the token and leaves the lexer advanced: [tok, l]
NextToken(l0) ==
  LET l == skipWhitespace(l0)
  IN  CASE l.ch = "=" ->
             IF peekChar(l) = "="
               THEN LET ch == l.ch
                        l2 == readChar(l)
                    IN  [tok |-> Token(EQ, stringOfByte(ch)
                                               \o stringOfByte(l2.ch)),
                         l |-> readChar(l2)]
               ELSE [tok |-> newToken(ASSIGN, l.ch), l |-> readChar(l)]
        [] l.ch = "\"" ->
             LET r == readString(l)
             IN  [tok |-> Token(STRING_, r.s), l |-> readChar(r.l)]
        [] l.ch \in SingleCharKinds ->
             \* every one of these kinds is named by its own character
             [tok |-> newToken(l.ch, l.ch), l |-> readChar(l)]
        [] l.ch = "!" ->
             IF peekChar(l) = "="
               THEN LET ch == l.ch
                        l2 == readChar(l)
                    IN  [tok |-> Token(NOT_EQ,
                                      stringOfByte(ch) \o stringOfByte(l2.ch)),
                         l |-> readChar(l2)]
               ELSE [tok |-> newToken(BANG, l.ch), l |-> readChar(l)]
        [] l.ch = NUL ->
             [tok |-> Token(EOF, <<>>), l |-> readChar(l)]
        [] OTHER ->
             IF isLetter(l.ch)
               THEN LET r == readIdentifier(l)
                    IN  [tok |-> Token(LookupIdent(r.s), r.s), l |-> r.l]
               ELSE IF isDigit(l.ch)
                 THEN LET r == readNumber(l)
                      IN  [tok |-> Token(INT, r.s), l |-> r.l]
                 ELSE [tok |-> newToken(ILLEGAL, l.ch), l |-> readChar(l)]

(***************************************************************************)
(* ast/ast.go: the nodes.  A node is a record whose field "node" names the *)
(* Go type; the other fields are the fields of the struct.                 *)
(***************************************************************************)

\* the nil interface value (ast.Expression(nil), ast.Statement(nil))
Nil == [node |-> "nil"]

\* a nil *ast.LetStatement stored in an ast.Statement interface: the
\* interface holds a type and a nil pointer, and is itself not nil
NilLetStatement == [node |-> "(*LetStatement)(nil)"]

Identifier(tok, value) ==
  [node |-> "Identifier", Token |-> tok, Value |-> value]

IntegerLiteral(tok, value) ==
  [node |-> "IntegerLiteral", Token |-> tok, Value |-> value]

Boolean(tok, value) ==
  [node |-> "Boolean", Token |-> tok, Value |-> value]

PrefixExpression(tok, operator, right) ==
  [node |-> "PrefixExpression", Token |-> tok, Operator |-> operator,
   Right |-> right]

InfixExpression(tok, left, operator, right) ==
  [node |-> "InfixExpression", Token |-> tok, Left |-> left,
   Operator |-> operator, Right |-> right]

IfExpression(tok, condition, consequence, alternative) ==
  [node |-> "IfExpression", Token |-> tok, Condition |-> condition,
   Consequence |-> consequence, Alternative |-> alternative]

BlockStatement(tok, statements) ==
  [node |-> "BlockStatement", Token |-> tok, Statements |-> statements]

FunctionLiteral(tok, parameters, body) ==
  [node |-> "FunctionLiteral", Token |-> tok, Parameters |-> parameters,
   Body |-> body]

LetStatement(tok, name, value) ==
  [node |-> "LetStatement", Token |-> tok, Name |-> name, Value |-> value]

ReturnStatement(tok, returnValue) ==
  [node |-> "ReturnStatement", Token |-> tok, ReturnValue |-> returnValue]

ExpressionStatement(tok, expression) ==
  [node |-> "ExpressionStatement", Token |-> tok, Expression |-> expression]

\* the parser at hand builds no CallExpression; the evaluator takes them
CallExpression(tok, function, arguments) ==
  [node |-> "CallExpression", Token |-> tok, Function |-> function,
   Arguments |-> arguments]

(***************************************************************************)
(* parser/parser.go                                                        *)
(*                                                                         *)
(* The parser is the record p: the lexer l, currentToken, peekToken,       *)
(* errors and the two handler tables.  A parsing method is an operator     *)
(* from the parser to the parser it leaves and the value it returns.       *)
(* The field hung is set when control enters a loop that no token can end  *)
(* (skipUntilSemicolon below); from then on the method does not return,    *)
(* so nextToken and the error list no longer act and the caller discards   *)
(* the value.                                                              *)
(***************************************************************************)

LOWEST      == 1
EQUALS      == 2
LESSGREATER == 3
SUM         == 4
PRODUCT     == 5
PREFIX      == 6
CALL        == 7

\* the table with the levels of + and * exchanged
precedencesSumProductSwapped ==
  (EQ :> EQUALS) @@ (NOT_EQ :> EQUALS) @@
  (LT :> LESSGREATER) @@ (GT :> LESSGREATER) @@
  (PLUS :> PRODUCT) @@ (MINUS :> PRODUCT) @@
  (SLASH :> SUM) @@ (ASTERISK :> SUM)

precedences ==
  (EQ :> EQUALS) @@ (NOT_EQ :> EQUALS) @@
  (LT :> LESSGREATER) @@ (GT :> LESSGREATER) @@
  (PLUS :> SUM) @@ (MINUS :> SUM) @@
  (SLASH :> PRODUCT) @@ (ASTERISK :> PRODUCT)

\* the handlers that New registers, by name
prefixParseFns ==
  (IDENT :> "parseIdentifier") @@ (INT :> "parseIntegerLiteral") @@
  (BANG :> "parsePrefixExpression") @@ (MINUS :> "parsePrefixExpression") @@
  (LPAREN :> "parseGroupedExpression") @@ (IF_ :> "parseIfExpression") @@
  (TRUE_ :> "parseBoolean") @@ (FALSE_ :> "parseBoolean") @@
  (FUNCTION :> "parseFunctionLiteral")

infixParseFns ==
  (PLUS :> "parseInfixExpression") @@ (MINUS :> "parseInfixExpression") @@
  (SLASH :> "parseInfixExpression") @@ (ASTERISK :> "parseInfixExpression") @@
  (EQ :> "parseInfixExpression") @@ (NOT_EQ :> "parseInfixExpression") @@
  (LT :> "parseInfixExpression") @@ (GT :> "parseInfixExpression")

\* p.currentToken = p.peekToken; p.peekToken = (the token r.tok that
\* p.lexer.NextToken() returned, leaving the lexer r.l)
advance(p_, r) ==
  [p_ EXCEPT !.currentToken = p_.peekToken, !.peekToken = r.tok, !.l = r.l]

nextToken(p_) == IF p_.hung THEN p_ ELSE advance(p_, NextToken(p_.l))

ParserNew(l) ==
  nextToken(nextToken(
    [l |-> l, errors |-> <<>>,
     currentToken |-> Token("", <<>>), peekToken |-> Token("", <<>>),
     prefixParseFns |-> prefixParseFns, infixParseFns |-> infixParseFns,
     hung |-> FALSE]))

Errors(p_) == p_.errors

\* p.errors = append(p.errors, msg)
appendError(p_, msg) ==
  IF p_.hung THEN p_ ELSE [p_ EXCEPT !.errors = Append(@, msg)]

curTokenIs(p_, t) == p_.currentToken.Type = t

peekTokenIs(p_, t) == p_.peekToken.Type = t

peekError(p_, t) ==
  appendError(p_, "expected next token to be " \o t \o ", got "
                    \o p_.peekToken.Type \o " instead")

\* the function advancing whether or not the next token is the expected one
expectPeekAlwaysAdvancing(p_, t) ==
  IF peekTokenIs(p_, t)
    THEN [p |-> nextToken(p_), ok |-> TRUE]
    ELSE [p |-> nextToken(peekError(p_, t)), ok |-> FALSE]

\* expectPeek returns the parser and the boolean: [p, ok]
expectPeek(p_, t) ==
  IF peekTokenIs(p_, t)
    THEN [p |-> nextToken(p_), ok |-> TRUE]
    ELSE [p |-> peekError(p_, t), ok |-> FALSE]

noPrefixParseFnError(p_, t) ==
  appendError(p_, "no prefix parse function for " \o t \o " found")

peekPrecedence(p_) ==
  IF p_.peekToken.Type \in DOMAIN precedences
    THEN precedences[p_.peekToken.Type]
    ELSE LOWEST

curPrecedence(p_) ==
  IF p_.currentToken.Type \in DOMAIN precedences
    THEN precedences[p_.currentToken.Type]
    ELSE LOWEST

(***************************************************************************)
(* strconv.ParseInt(s, 0, 64), as parseIntegerLiteral calls it, on the     *)
(* digit runs readNumber produces.  With base 0 the base comes from the    *)
(* prefix of s: a leading "0" that is not followed by b, o or x selects    *)
(* base 8 and is dropped; everything else is base 10.  A digit that is not *)
(* below the base is a syntax error, a value above 2^63 - 1 a range error. *)
(* Values are computed exactly for the runs the model draws.               *)
(***************************************************************************)

DigitValue(c) ==
  CASE c = "0" -> 0 [] c = "1" -> 1 [] c = "2" -> 2 [] c = "3" -> 3
    [] c = "4" -> 4 [] c = "5" -> 5 [] c = "6" -> 6 [] c = "7" -> 7
    [] c = "8" -> 8 [] c = "9" -> 9

\* the digits of 2^63 - 1 in base 10
MaxInt64Digits ==
  << "9", "2", "2", "3", "3", "7", "2", "0", "3", "6", "8", "5", "4", "7",
     "7", "5", "8", "0", "7" >>

\* a and b have the same length: a <= b as numerals
RECURSIVE NumeralLeq(_, _)
NumeralLeq(a, b) ==
  IF a = <<>> THEN TRUE
  ELSE IF DigitValue(a[1]) < DigitValue(b[1]) THEN TRUE
  ELSE IF DigitValue(a[1]) > DigitValue(b[1]) THEN FALSE
  ELSE NumeralLeq(Tail(a), Tail(b))

RECURSIVE StripZeros(_)
StripZeros(s) ==
  IF s # <<>> /\ s[1] = "0" THEN StripZeros(Tail(s)) ELSE s

\* 2^63 - 1 is 21 sevens in base 8
InRange(s, base) ==
  LET d == StripZeros(s)
  IN  IF base = 8
        THEN Len(d) <= 21
        ELSE Len(d) < 19 \/ (Len(d) = 19 /\ NumeralLeq(d, MaxInt64Digits))

RECURSIVE Horner(_, _, _)
Horner(s, base, n) ==
  IF s = <<>> THEN n ELSE Horner(Tail(s), base, n * base + DigitValue(s[1]))

\* the base ParseInt selects for s when called with base 0
ParseIntBase(s) == IF s[1] = "0" THEN 8 ELSE 10

\* ParseInt returns the value and whether err is nil: [value, ok]
ParseInt(s) ==
  LET base == ParseIntBase(s)
      body == IF base = 8 THEN Tail(s) ELSE s
  IN  IF s = <<>> \/ \E i \in 1..Len(body) : DigitValue(body[i]) >= base
        THEN [value |-> 0, ok |-> FALSE]
      ELSE IF ~InRange(body, base)
        THEN [value |-> 0, ok |-> FALSE]
      ELSE [value |-> Horner(body, base, 0), ok |-> TRUE]

(***************************************************************************)
(* The parsing methods.  Each returns [p |-> the parser, node |-> value].  *)
(***************************************************************************)

\* for !p.curTokenIs(token.SEMICOLON) { p.nextToken() }
\* Once the lexer has read past the end of the input, nextToken yields EOF
\* for ever: with EOF in both token slots the loop cannot end.
RECURSIVE skipUntilSemicolon(_)
skipUntilSemicolon(p_) ==
  IF curTokenIs(p_, SEMICOLON)
    THEN p_
  ELSE IF /\ curTokenIs(p_, EOF) /\ peekTokenIs(p_, EOF)
          /\ p_.l.ch = NUL /\ p_.l.readPosition >= Len(p_.l.input)
    THEN [p_ EXCEPT !.hung = TRUE]
  ELSE skipUntilSemicolon(nextToken(p_))

\* what a parsing method returns
Result(p_, node) == [p |-> p_, node |-> node]

\* parseLetStatement after expectPeek(token.ASSIGN) has returned e
parseLetStatementValue(tok, name, e) ==
  IF ~e.ok
    THEN Result(e.p, NilLetStatement)
    ELSE Result(skipUntilSemicolon(e.p), LetStatement(tok, name, Nil))

\* parseLetStatement after expectPeek(token.IDENT) has returned e
parseLetStatementName(tok, e) ==
  IF ~e.ok
    THEN Result(e.p, NilLetStatement)
    ELSE parseLetStatementValue(
           tok,
           Identifier(e.p.currentToken, e.p.currentToken.Literal),
           expectPeek(e.p, ASSIGN))

parseLetStatement(p_) ==
  parseLetStatementName(p_.currentToken, expectPeek(p_, IDENT))

parseReturnStatement(p_) ==
  Result(skipUntilSemicolon(nextToken(p_)),
         ReturnStatement(p_.currentToken, Nil))

parseIdentifier(p_) ==
  Result(p_, Identifier(p_.currentToken, p_.currentToken.Literal))

\* parseIntegerLiteral after strconv.ParseInt has returned r
parseIntegerLiteralValue(p_, r) ==
  IF ~r.ok
    THEN Result(appendError(p_, "could not parse \""
                                  \o Str(p_.currentToken.Literal)
                                  \o "\" as integer"),
                Nil)
    ELSE Result(p_, IntegerLiteral(p_.currentToken, r.value))

parseIntegerLiteral(p_) ==
  parseIntegerLiteralValue(p_, ParseInt(p_.currentToken.Literal))

parseBoolean(p_) ==
  Result(p_, Boolean(p_.currentToken, curTokenIs(p_, TRUE_)))

RECURSIVE parseExpression(_, _)
RECURSIVE parseStatement(_)

\* the node of parsePrefixExpression, once parseExpression has returned
PrefixExpressionRight(tok, right) ==
  Result(right.p, PrefixExpression(tok, tok.Literal, right.node))

\* the handler with the operand parsed at LOWEST instead of PREFIX
parsePrefixExpressionAtLowest(p_) ==
  PrefixExpressionRight(p_.currentToken,
                        parseExpression(nextToken(p_), LOWEST))

parsePrefixExpression(p_) ==
  PrefixExpressionRight(p_.currentToken,
                        parseExpression(nextToken(p_), PREFIX))

\* the node of parseInfixExpression, once parseExpression has returned
InfixExpressionRight(tok, left, right) ==
  Result(right.p, InfixExpression(tok, left, tok.Literal, right.node))

parseInfixExpression(p_, left) ==
  InfixExpressionRight(p_.currentToken, left,
                       parseExpression(nextToken(p_), curPrecedence(p_)))

\* parseGroupedExpression after expectPeek(token.RPAREN) has returned e
parseGroupedExpressionReturn(exp, e) ==
  IF ~e.ok THEN Result(e.p, Nil) ELSE Result(e.p, exp)

\* parseGroupedExpression after parseExpression has returned exp
parseGroupedExpressionRParen(exp) ==
  parseGroupedExpressionReturn(exp.node, expectPeek(exp.p, RPAREN))

parseGroupedExpression(p_) ==
  parseGroupedExpressionRParen(parseExpression(nextToken(p_), LOWEST))

\* the loop of parseBlockStatement: [p, statements]
RECURSIVE parseBlockStatementLoop(_, _)

\* the body of the loop, once parseStatement has returned r
parseBlockStatementAppend(statements, r) ==
  parseBlockStatementLoop(
    nextToken(r.p),
    IF r.node # Nil THEN Append(statements, r.node) ELSE statements)

parseBlockStatementLoop(p_, statements) ==
  IF ~curTokenIs(p_, RBRACE) /\ ~curTokenIs(p_, EOF)
    THEN parseBlockStatementAppend(statements, parseStatement(p_))
    ELSE [p |-> p_, statements |-> statements]

BlockStatementOf(tok, r) == Result(r.p, BlockStatement(tok, r.statements))

parseBlockStatement(p_) ==
  BlockStatementOf(p_.currentToken,
                   parseBlockStatementLoop(nextToken(p_), <<>>))

\* parseIfExpression, step by step; each step takes what the call before
\* it returned
parseIfExpressionReturn(tok, condition, consequence, alt) ==
  Result(alt.p, IfExpression(tok, condition, consequence, alt.node))

parseIfExpressionAlternative(tok, condition, consequence, e) ==
  IF ~e.ok
    THEN Result(e.p, Nil)
    ELSE parseIfExpressionReturn(tok, condition, consequence,
                                 parseBlockStatement(e.p))

parseIfExpressionElse(tok, condition, cons) ==
  IF peekTokenIs(cons.p, ELSE_)
    THEN parseIfExpressionAlternative(
           tok, condition, cons.node,
           expectPeek(nextToken(cons.p), LBRACE))
    ELSE Result(cons.p, IfExpression(tok, condition, cons.node, Nil))

parseIfExpressionConsequence(tok, condition, e) ==
  IF ~e.ok
    THEN Result(e.p, Nil)
    ELSE parseIfExpressionElse(tok, condition, parseBlockStatement(e.p))

parseIfExpressionLBrace(tok, condition, e) ==
  IF ~e.ok
    THEN Result(e.p, Nil)
    ELSE parseIfExpressionConsequence(tok, condition,
                                      expectPeek(e.p, LBRACE))

parseIfExpressionRParen(tok, c) ==
  parseIfExpressionLBrace(tok, c.node, expectPeek(c.p, RPAREN))

parseIfExpressionCondition(tok, e) ==
  IF ~e.ok
    THEN Result(e.p, Nil)
    ELSE parseIfExpressionRParen(tok,
                                 parseExpression(nextToken(e.p), LOWEST))

parseIfExpression(p_) ==
  parseIfExpressionCondition(p_.currentToken, expectPeek(p_, LPAREN))

\* the loop of parseFunctionParameters: [p, identifiers]
RECURSIVE parseFunctionParametersLoop(_, _)

\* the body of the loop, after the two calls of nextToken
parseFunctionParametersAppend(p_, identifiers) ==
  parseFunctionParametersLoop(
    p_,
    Append(identifiers,
           Identifier(p_.currentToken, p_.currentToken.Literal)))

parseFunctionParametersLoop(p_, identifiers) ==
  IF peekTokenIs(p_, COMMA)
    THEN parseFunctionParametersAppend(nextToken(nextToken(p_)), identifiers)
    ELSE [p |-> p_, identifiers |-> identifiers]

\* the nil slice of the failure is the empty list
parseFunctionParametersReturn(identifiers, e) ==
  IF ~e.ok
    THEN [p |-> e.p, identifiers |-> <<>>]
    ELSE [p |-> e.p, identifiers |-> identifiers]

parseFunctionParametersRParen(r) ==
  parseFunctionParametersReturn(r.identifiers, expectPeek(r.p, RPAREN))

parseFunctionParametersFirst(p_) ==
  parseFunctionParametersRParen(
    parseFunctionParametersLoop(
      p_, << Identifier(p_.currentToken, p_.currentToken.Literal) >>))

\* returns [p, identifiers]
parseFunctionParameters(p_) ==
  IF peekTokenIs(p_, RPAREN)
    THEN [p |-> nextToken(p_), identifiers |-> <<>>]
    ELSE parseFunctionParametersFirst(nextToken(p_))

parseFunctionLiteralReturn(tok, parameters, body) ==
  Result(body.p, FunctionLiteral(tok, parameters, body.node))

parseFunctionLiteralBody(tok, parameters, e) ==
  IF ~e.ok
    THEN Result(e.p, Nil)
    ELSE parseFunctionLiteralReturn(tok, parameters,
                                    parseBlockStatement(e.p))

parseFunctionLiteralLBrace(tok, ps) ==
  parseFunctionLiteralBody(tok, ps.identifiers, expectPeek(ps.p, LBRACE))

parseFunctionLiteralParameters(tok, e) ==
  IF ~e.ok
    THEN Result(e.p, Nil)
    ELSE parseFunctionLiteralLBrace(tok, parseFunctionParameters(e.p))

parseFunctionLiteral(p_) ==
  parseFunctionLiteralParameters(p_.currentToken, expectPeek(p_, LPAREN))

\* prefix() for the handler registered under the given name
callPrefix(fn, p_) ==
  CASE fn = "parseIdentifier"        -> parseIdentifier(p_)
    [] fn = "parseIntegerLiteral"    -> parseIntegerLiteral(p_)
    [] fn = "parsePrefixExpression"  -> parsePrefixExpression(p_)
    [] fn = "parseGroupedExpression" -> parseGroupedExpression(p_)
    [] fn = "parseIfExpression"      -> parseIfExpression(p_)
    [] fn = "parseBoolean"           -> parseBoolean(p_)
    [] fn = "parseFunctionLiteral"   -> parseFunctionLiteral(p_)

\* infix(leftExp) for the handler registered under the given name
callInfix(fn, p_, leftExp) ==
  CASE fn = "parseInfixExpression" -> parseInfixExpression(p_, leftExp)

\* the loop of parseExpression; left is the parser and leftExp
RECURSIVE parseExpressionLoop(_, _)
parseExpressionLoop(left, precedence) ==
  IF ~peekTokenIs(left.p, SEMICOLON) /\ precedence < peekPrecedence(left.p)
    THEN IF left.p.peekToken.Type \notin DOMAIN left.p.infixParseFns
           THEN left
           ELSE parseExpressionLoop(
                  callInfix(left.p.infixParseFns[left.p.peekToken.Type],
                            nextToken(left.p), left.node),
                  precedence)
    ELSE left

\* parseExpression that steps over the token it has no handler for
parseExpressionSkipping(p_, precedence) ==
  IF p_.currentToken.Type \notin DOMAIN p_.prefixParseFns
    THEN Result(nextToken(noPrefixParseFnError(p_, p_.currentToken.Type)),
                Nil)
    ELSE parseExpressionLoop(
           callPrefix(p_.prefixParseFns[p_.currentToken.Type], p_),
           precedence)

parseExpression(p_, precedence) ==
  IF p_.currentToken.Type \notin DOMAIN p_.prefixParseFns
    THEN Result(noPrefixParseFnError(p_, p_.currentToken.Type), Nil)
    ELSE parseExpressionLoop(
           callPrefix(p_.prefixParseFns[p_.currentToken.Type], p_),
           precedence)

\* parseExpressionStatement after parseExpression has returned r
parseExpressionStatementSemicolon(tok, r) ==
  Result(IF peekTokenIs(r.p, SEMICOLON) THEN nextToken(r.p) ELSE r.p,
         ExpressionStatement(tok, r.node))

parseExpressionStatement(p_) ==
  parseExpressionStatementSemicolon(p_.currentToken,
                                    parseExpression(p_, LOWEST))

parseStatement(p_) ==
  CASE p_.currentToken.Type = LET_   -> parseLetStatement(p_)
    [] p_.currentToken.Type = RETURN -> parseReturnStatement(p_)
    [] OTHER                         -> parseExpressionStatement(p_)

(***************************************************************************)
(* ast/ast.go: String().  The result is [panic, s]: s is the text, and     *)
(* panic says that the call dereferenced nil (a method call on the nil     *)
(* interface, or a field read through a nil pointer), which aborts every   *)
(* enclosing String call.                                                  *)
(***************************************************************************)

Text(s) == [panic |-> FALSE, s |-> s]

NilDereference == [panic |-> TRUE, s |-> <<>>]

\* out.WriteString(x) for the result x of an inner call
WriteString(buf, x) ==
  IF buf.panic \/ x.panic THEN NilDereference ELSE Text(buf.s \o x.s)

RECURSIVE String(_)

\* the loop "for _, s := range statements { out.WriteString(s.String()) }"
RECURSIVE WriteStatements(_, _)
WriteStatements(buf, statements) ==
  IF statements = <<>>
    THEN buf
    ELSE WriteStatements(WriteString(buf, String(Head(statements))),
                         Tail(statements))

\* strings.Join(params, ", ") over the String() of every element
RECURSIVE JoinRest(_, _)
JoinRest(buf, elems) ==
  IF elems = <<>>
    THEN buf
    ELSE JoinRest(WriteString(WriteString(buf, Text(<<",", " ">>)),
                              String(Head(elems))),
                  Tail(elems))

JoinStrings(elems) ==
  IF elems = <<>>
    THEN Text(<<>>)
    ELSE JoinRest(String(Head(elems)), Tail(elems))

LetStatementString(ls) ==
  WriteString(
    WriteString(
      WriteString(
        WriteString(Text(ls.Token.Literal \o <<" ">>), String(ls.Name)),
        Text(<<" ", "=", " ">>)),
      IF ls.Value # Nil THEN String(ls.Value) ELSE Text(<<>>)),
    Text(<<";">>))

ReturnStatementString(rs) ==
  WriteString(
    WriteString(
      Text(rs.Token.Literal \o <<" ">>),
      IF rs.ReturnValue # Nil THEN String(rs.ReturnValue) ELSE Text(<<>>)),
    Text(<<";">>))

ExpressionStatementString(es) ==
  IF es.Expression # Nil THEN String(es.Expression) ELSE Text(<<>>)

IdentifierString(i) == Text(i.Value)

IntegerLiteralString(il) == Text(il.Token.Literal)

BooleanString(b) == Text(b.Token.Literal)

PrefixExpressionString(pe) ==
  WriteString(
    WriteString(Text(<<"(">> \o pe.Operator), String(pe.Right)),
    Text(<<")">>))

\* the method without the enclosing parentheses
InfixExpressionStringNoParentheses(ie) ==
  WriteString(
    WriteString(String(ie.Left), Text(<<" ">> \o ie.Operator \o <<" ">>)),
    String(ie.Right))

InfixExpressionString(ie) ==
  WriteString(
    WriteString(
      WriteString(
        WriteString(Text(<<"(">>), String(ie.Left)),
        Text(<<" ">> \o ie.Operator \o <<" ">>)),
      String(ie.Right)),
    Text(<<")">>))

IfExpressionString(ie) ==
  LET head ==
        WriteString(
          WriteString(
            WriteString(Text(<<"i", "f">>), String(ie.Condition)),
            Text(<<" ">>)),
          String(ie.Consequence))
  IN  IF ie.Alternative # Nil
        THEN WriteString(
               WriteString(head, Text(<<"e", "l", "s", "e", " ">>)),
               String(ie.Alternative))
        ELSE head

BlockStatementString(bs) == WriteStatements(Text(<<>>), bs.Statements)

FunctionLiteralString(fl) ==
  WriteString(
    WriteString(
      WriteString(
        WriteString(Text(fl.Token.Literal), Text(<<"(">>)),
        JoinStrings(fl.Parameters)),
      Text(<<")", " ">>)),
    String(fl.Body))

CallExpressionString(ce) ==
  WriteString(
    WriteString(
      WriteString(String(ce.Function), Text(<<"(">>)),
      JoinStrings(ce.Arguments)),
    Text(<<")">>))

\* n.String(): the method of the dynamic type of n; a call on the nil
\* interface, and the field read ls.Token through a nil *LetStatement, fault
String(n) ==
  CASE n.node = "nil"                  -> NilDereference
    [] n.node = "(*LetStatement)(nil)" -> NilDereference
    [] n.node = "LetStatement"         -> LetStatementString(n)
    [] n.node = "ReturnStatement"      -> ReturnStatementString(n)
    [] n.node = "ExpressionStatement"  -> ExpressionStatementString(n)
    [] n.node = "Identifier"           -> IdentifierString(n)
    [] n.node = "IntegerLiteral"       -> IntegerLiteralString(n)
    [] n.node = "Boolean"              -> BooleanString(n)
    [] n.node = "PrefixExpression"     -> PrefixExpressionString(n)
    [] n.node = "InfixExpression"      -> InfixExpressionString(n)
    [] n.node = "IfExpression"         -> IfExpressionString(n)
    [] n.node = "BlockStatement"       -> BlockStatementString(n)
    [] n.node = "FunctionLiteral"      -> FunctionLiteralString(n)
    [] n.node = "CallExpression"       -> CallExpressionString(n)

\* (p *Program) String()
ProgramString(statements) == WriteStatements(Text(<<>>), statements)

(***************************************************************************)
(* Source texts.  A source is written as a list of lexemes, joined by      *)
(* single spaces.                                                          *)
(***************************************************************************)

RECURSIVE Join(_)
Join(ws) ==
  IF ws = <<>> THEN <<>>
  ELSE IF Len(ws) = 1 THEN ws[1]
  ELSE ws[1] \o <<" ">> \o Join(Tail(ws))

BinaryOperators ==
  { <<"+">>, <<"-">>, <<"*">>, <<"/">>, <<"=", "=">>, <<"!", "=">>,
    <<"<">>, <<">">> }

PrefixOperators == { <<"-">>, <<"!">> }

Operands == { <<"a">>, <<"5">> }

kwLet    == <<"l", "e", "t">>
kwReturn == <<"r", "e", "t", "u", "r", "n">>
kwIf     == <<"i", "f">>
kwElse   == <<"e", "l", "s", "e">>
kwFn     == <<"f", "n">>
kwTrue   == <<"t", "r", "u", "e">>

\* the lexemes of the sources that are enumerated exhaustively
Vocabulary ==
  { <<"a">>, <<"1">>, <<"+">>, <<"*">>, <<"-">>, <<"!">>, <<"(">>, <<")">>,
    <<"=">>, <<";">>, <<"<">>, kwLet, kwReturn }

\* the longest exhaustively enumerated source, in lexemes
MaxTokens == 3

\* the longest digit run
MaxDigits == 3

\* how far past the end of the input the lexer is followed
MaxOverrun == 4

DigitChoices == { "0", "1", "8", "9" }

EnumeratedSources ==
  { Join(ws) : ws \in UNION { [1..n -> Vocabulary] : n \in 0..MaxTokens } }

InfixSources ==
  { Join(<<a, op1, b, op2, c>>) :
      a \in Operands, b \in Operands, c \in Operands,
      op1 \in BinaryOperators, op2 \in BinaryOperators }

PrefixSources ==
  { Join(<<pre, a, op, b>>) :
      pre \in PrefixOperators, a \in Operands, b \in Operands,
      op \in BinaryOperators }
  \cup { Join(<<p1, p2, a>>) :
           p1 \in PrefixOperators, p2 \in PrefixOperators, a \in Operands }

\* expressions used as the value of a let or a return
ValueExpressions ==
  { << <<"5">> >>, << <<"a">>, <<"+">>, <<"b">> >>, << <<"-">>, <<"a">> >>,
    << <<"a">>, <<"+">>, <<"b">>, <<"*">>, <<"c">> >> }

Names == { <<"x">>, <<"f", "o", "o">> }

LetSources ==
  { Join(<<kwLet, x, <<"=">> >> \o e \o end) :
      x \in Names, e \in ValueExpressions, end \in { <<>>, << <<";">> >> } }

ReturnSources ==
  { Join(<<kwReturn>> \o e \o end) :
      e \in ValueExpressions, end \in { <<>>, << <<";">> >> } }

IntegerSources ==
  UNION { [1..n -> DigitChoices] : n \in 1..MaxDigits }

SrcCallAdd ==
  <<"a", "d", "d", "(", "1", ",", " ", "2", " ", "*", " ", "3", ")">>
SrcCallNoArgs == <<"f", "(", ")">>
SrcCallOneArg == <<"f", "(", "a", ")">>
SrcCallTwoArgs == <<"f", "(", "a", ",", " ", "b", ")", ";">>

CallSources == { SrcCallAdd, SrcCallNoArgs, SrcCallOneArg, SrcCallTwoArgs }

SrcIfElse ==
  Join(<<kwIf, <<"(">>, <<"a">>, <<"<">>, <<"b">>, <<")">>, <<"{">>, <<"c">>,
         <<"}">>, kwElse, <<"{">>, <<"d">>, <<"}">> >>)
SrcIf ==
  Join(<<kwIf, <<"(">>, <<"a">>, <<")">>, <<"{">>, <<"b">>, <<"}">> >>)
SrcFn ==
  Join(<<kwFn, <<"(">>, <<"x">>, <<",">>, <<"y">>, <<")">>, <<"{">>, <<"x">>,
         <<"+">>, <<"y">>, <<";">>, <<"}">> >>)
SrcFnNoParams ==
  Join(<<kwFn, <<"(">>, <<")">>, <<"{">>, <<"a">>, <<"}">> >>)
SrcLetInBlock ==
  Join(<<kwIf, <<"(">>, <<"a">>, <<")">>, <<"{">>, kwLet, <<"x">>, <<"=">>,
         <<"1">>, <<";">>, <<"}">> >>)
SrcLetInBlockNoSemicolon ==
  Join(<<kwIf, <<"(">>, <<"a">>, <<")">>, <<"{">>, kwLet, <<"x">>, <<"=">>,
         <<"1">>, <<"}">> >>)
SrcBadLetInBlock ==
  Join(<<kwIf, <<"(">>, <<"a">>, <<")">>, <<"{">>, kwLet, <<"=">>, <<"1">>,
         <<";">>, <<"}">> >>)
SrcIfNoParen == Join(<<kwIf, <<"+">>, <<"1">> >>)
SrcIfNoCondition ==
  Join(<<kwIf, <<"(">>, <<";">>, <<")">>, <<"{">>, <<"}">> >>)
SrcTwoStatements == Join(<< <<"a">>, <<";">>, <<"b">>, <<";">> >>)
SrcLetThenAssign ==
  Join(<<kwLet, <<"a">>, <<"=">>, <<"1">>, <<";">>, <<"a">>, <<"=">>,
         <<"2">>, <<";">> >>)
SrcLetNoName == Join(<<kwLet, <<"=">>, <<"5">>, <<";">> >>)
SrcLetNoAssign == Join(<<kwLet, <<"x">>, <<"5">>, <<";">> >>)
SrcLetIntName == Join(<<kwLet, <<"1">>, <<"=">>, <<"2">>, <<";">> >>)
SrcTrue == kwTrue
SrcGrouped ==
  Join(<< <<"(">>, <<"a">>, <<"+">>, <<"b">>, <<")">>, <<"*">>, <<"c">> >>)

\* "a"
SrcString == <<"\"", "a", "\"">>
\* "a" + "b"
SrcStringSum == Join(<< SrcString, <<"+">>, <<"\"", "b", "\"">> >>)

\* fn(1, 2) {}
SrcFnIntParams ==
  Join(<<kwFn, <<"(">>, <<"1">>, <<",">>, <<"2">>, <<")">>, <<"{">>,
         <<"}">> >>)
\* fn(x,) {}
SrcFnTrailingComma ==
  Join(<<kwFn, <<"(">>, <<"x">>, <<",">>, <<")">>, <<"{">>, <<"}">> >>)

OtherSources ==
  { SrcString, SrcStringSum, SrcFnIntParams, SrcFnTrailingComma,
    SrcIfElse, SrcIf, SrcFn, SrcFnNoParams, SrcLetInBlock,
    SrcLetInBlockNoSemicolon, SrcBadLetInBlock, SrcIfNoParen,
    SrcIfNoCondition, SrcTwoStatements, SrcLetThenAssign, SrcLetNoName,
    SrcLetNoAssign, SrcLetIntName, SrcTrue, SrcGrouped }

Sources ==
  EnumeratedSources \cup InfixSources \cup PrefixSources \cup LetSources
    \cup ReturnSources \cup IntegerSources \cup CallSources \cup OtherSources

(***************************************************************************)
(* The driver: lexer.New, parser.New, ParseProgram, Program.String, and    *)
(* then the same on the printed text (repl/repl.go reads, parses and       *)
(* evaluates line after line).                                             *)
(*                                                                         *)
(*   input    the source text being parsed                                 *)
(*   p        the parser, with its lexer                                   *)
(*   program  program.Statements of the Program being built                *)
(*   pc       where control is                                             *)
(*   out      the result of program.String()                               *)
(*   prev     the program and errors of the parse whose printed text is    *)
(*            being parsed now, NoPrev during the first parse              *)
(*   lx       the lexer of a run of NextToken calls (LexSpec)              *)
(*   tokens   the tokens those calls have returned, in order               *)
(*   heap     the environments, in the order of their creation             *)
(*   ret      what the last call returned                                  *)
(*   log      the steps of the evaluation so far                           *)
(*   stdout   the text written to the writer of the REPL                   *)
(*   lines    the lines the reader of the REPL has still to deliver        *)
(***************************************************************************)

NoPrev == [first |-> TRUE]

\* no evaluation takes place in the run
IdleEval == heap = <<>> /\ ret = <<>> /\ log = <<>>

\* no REPL takes part in the run
IdleRepl == stdout = "" /\ lines = <<>>

Init ==
  /\ input \in Sources
  /\ p = ParserNew(LexerNew(input))
  /\ program = <<>>
  /\ pc = "ParseProgram"
  /\ out = Text(<<>>)
  /\ prev = NoPrev
  /\ lx = LexerNew(<<>>)
  /\ tokens = <<>>
  /\ IdleEval
  /\ IdleRepl

\* the rest of an iteration of the loop of ParseProgram, once parseStatement
\* has returned r (or has entered a loop that does not end)
ParseProgramAppend(r) ==
  IF r.p.hung
    THEN /\ p' = [r.p EXCEPT !.hung = FALSE]
         /\ pc' = "skipUntilSemicolon"
         /\ UNCHANGED program
    ELSE /\ p' = nextToken(r.p)
         /\ program' = IF r.node # Nil THEN Append(program, r.node)
                                       ELSE program
         /\ UNCHANGED pc

\* one iteration of the loop of ParseProgram
ParseProgramStep ==
  /\ pc = "ParseProgram"
  /\ ~curTokenIs(p, EOF)
  /\ ParseProgramAppend(parseStatement(p))
  /\ UNCHANGED <<input, out, prev, lexVars, evalVars, replVars>>

\* the loop of ParseProgram ends and the Program is returned
ParseProgramReturn ==
  /\ pc = "ParseProgram"
  /\ curTokenIs(p, EOF)
  /\ pc' = "returned"
  /\ UNCHANGED <<input, p, program, out, prev, lexVars, evalVars, replVars>>

\* one more iteration of a loop "for !p.curTokenIs(token.SEMICOLON)" that
\* has run past the end of the input
SkipUntilSemicolonStep ==
  /\ pc = "skipUntilSemicolon"
  /\ ~curTokenIs(p, SEMICOLON)
  /\ p.l.readPosition < Len(input) + MaxOverrun
  /\ p' = nextToken(p)
  /\ UNCHANGED <<input, program, pc, out, prev, lexVars, evalVars, replVars>>

\* program.String() on the returned Program
ProgramStringCall ==
  /\ pc = "returned"
  /\ out' = ProgramString(program)
  /\ pc' = IF out'.panic THEN "panic" ELSE "printed"
  /\ UNCHANGED <<input, p, program, prev, lexVars, evalVars, replVars>>

\* the printed text is parsed in its turn
Reparse ==
  /\ pc = "printed"
  /\ prev = NoPrev
  /\ prev' = [first |-> FALSE, program |-> program, errors |-> Errors(p)]
  /\ input' = out.s
  /\ p' = ParserNew(LexerNew(out.s))
  /\ program' = <<>>
  /\ pc' = "ParseProgram"
  /\ out' = Text(<<>>)
  /\ UNCHANGED <<lexVars, evalVars, replVars>>

Next ==
  \/ ParseProgramStep
  \/ ParseProgramReturn
  \/ SkipUntilSemicolonStep
  \/ ProgramStringCall
  \/ Reparse

Spec == Init /\ [][Next]_vars

(***************************************************************************)
(* Properties                                                              *)
(***************************************************************************)

\* the first parse has returned and its Program has been printed (or the
\* printer has faulted)
Printed == prev = NoPrev /\ pc \in {"printed", "panic"}

\* the level of a binary operator: EQUALS < LESSGREATER < SUM < PRODUCT
Level(op) ==
  CASE op \in { <<"=", "=">>, <<"!", "=">> } -> 1
    [] op \in { <<"<">>, <<">">> }           -> 2
    [] op \in { <<"+">>, <<"-">> }           -> 3
    [] op \in { <<"*">>, <<"/">> }           -> 4

RightNested(a, op1, b, op2, c) ==
  <<"(">> \o a \o <<" ">> \o op1 \o <<" ", "(">> \o b \o <<" ">> \o op2
    \o <<" ">> \o c \o <<")", ")">>

LeftNested(a, op1, b, op2, c) ==
  <<"(", "(">> \o a \o <<" ">> \o op1 \o <<" ">> \o b \o <<")", " ">> \o op2
    \o <<" ">> \o c \o <<")">>

\* C1: for all binary operators op1, op2 and operands a, b, c, the source
\* "a op1 b op2 c" parses and prints as (a op1 (b op2 c)) when op2 has the
\* higher level and as ((a op1 b) op2 c) otherwise.
C1_BinaryPrecedence ==
  \A a \in Operands, b \in Operands, c \in Operands,
     op1 \in BinaryOperators, op2 \in BinaryOperators :
    (Printed /\ input = Join(<<a, op1, b, op2, c>>)) =>
      /\ pc = "printed"
      /\ out.s = IF Level(op2) > Level(op1)
                   THEN RightNested(a, op1, b, op2, c)
                   ELSE LeftNested(a, op1, b, op2, c)

C1_Witness ==
  /\ Printed
  /\ input = Join(<< <<"a">>, <<"+">>, <<"5">>, <<"*">>, <<"a">> >>)
  /\ Str(out.s) = "(a + (5 * a))"

\* C2: a prefix operator binds tighter than every binary operator,
\* "-a op b" is ((-a) op b) and "!a op b" is ((!a) op b), and a chain of
\* prefix operators nests to the right, "!-a" is (!(-a)).
C2_PrefixBindsTighter ==
  /\ \A pre \in PrefixOperators, a \in Operands, b \in Operands,
        op \in BinaryOperators :
       (Printed /\ input = Join(<<pre, a, op, b>>)) =>
         /\ pc = "printed"
         /\ out.s = <<"(", "(">> \o pre \o a \o <<")", " ">> \o op
                      \o <<" ">> \o b \o <<")">>
  /\ \A p1 \in PrefixOperators, p2 \in PrefixOperators, a \in Operands :
       (Printed /\ input = Join(<<p1, p2, a>>)) =>
         /\ pc = "printed"
         /\ out.s = <<"(">> \o p1 \o <<"(">> \o p2 \o a \o <<")", ")">>

C2_Witness ==
  /\ Printed
  /\ input = Join(<< <<"-">>, <<"a">>, <<"*">>, <<"5">> >>)
  /\ Str(out.s) = "((-a) * 5)"

\* the expression that parseExpression(LOWEST) yields on a source text
ExpressionOf(src) == parseExpression(ParserNew(LexerNew(src)), LOWEST).node

\* the first parse has returned its Program
Returned == prev = NoPrev /\ pc = "returned"

\* C3: for every well-formed "let <ident> = <expr>;" the Program holds one
\* let statement whose name is the identifier and whose value is the
\* expression parsed at LOWEST from the tokens after "=" (present, not
\* nil), and it prints as "let <name> = <value>;".
C3_LetValue ==
  \A x \in Names, e \in ValueExpressions :
    LET src == Join(<<kwLet, x, <<"=">> >> \o e \o << <<";">> >>)
    IN  /\ (Returned /\ input = src) =>
             /\ Len(program) = 1
             /\ program[1].node = "LetStatement"
             /\ program[1].Name.Value = x
             /\ program[1].Value # Nil
             /\ program[1].Value = ExpressionOf(Join(e))
        /\ (Printed /\ input = src) =>
             /\ pc = "printed"
             /\ out.s = kwLet \o <<" ">> \o x \o <<" ", "=", " ">>
                          \o String(ExpressionOf(Join(e))).s \o <<";">>

\* C4: for every "return <expr>;" the Program holds one return statement
\* whose value is the expression parsed at LOWEST from the tokens after
\* "return" (present, not nil), and it prints as "return <value>;".
C4_ReturnValue ==
  \A e \in ValueExpressions :
    LET src == Join(<<kwReturn>> \o e \o << <<";">> >>)
    IN  /\ (Returned /\ input = src) =>
             /\ Len(program) = 1
             /\ program[1].node = "ReturnStatement"
             /\ program[1].ReturnValue # Nil
             /\ program[1].ReturnValue = ExpressionOf(Join(e))
        /\ (Printed /\ input = src) =>
             /\ pc = "printed"
             /\ out.s = kwReturn \o <<" ">>
                          \o String(ExpressionOf(Join(e))).s \o <<";">>

\* C5: ParseProgram terminates on every input, also when a let or return
\* statement is followed by the end of the input instead of ";": it is never
\* in an iteration of a skip-to-semicolon loop with the whole input read and
\* the current and the next token EOF, since nextToken reproduces that state
\* and the loop goes on for ever.
C5_ParseProgramTerminates ==
  ~ /\ pc = "skipUntilSemicolon"
    /\ ~curTokenIs(p, SEMICOLON)
    /\ curTokenIs(p, EOF)
    /\ peekTokenIs(p, EOF)
    /\ p.l.ch = NUL
    /\ p.l.readPosition >= Len(input)

\* C6: "<callee>(a1, ..., an)" parses without error to one call expression
\* whose arguments are parsed at LOWEST, in source order; "add(1, 2 * 3)"
\* prints as "add(1, (2 * 3))".
C6_CallExpression ==
  (Printed /\ input \in CallSources) =>
    /\ pc = "printed"
    /\ Errors(p) = <<>>
    /\ Len(program) = 1
    /\ Str(out.s) = CASE input = SrcCallAdd     -> "add(1, (2 * 3))"
                      [] input = SrcCallNoArgs  -> "f()"
                      [] input = SrcCallOneArg  -> "f(a)"
                      [] input = SrcCallTwoArgs -> "f(a, b)"

\* the value of a digit run read in base 10
DecimalValue(s) == Horner(s, 10, 0)

\* C7: every digit run whose value fits 64 bits parses, without error, to
\* an integer literal with the decimal value of the run, leading zeros
\* included ("010" is 10, "09" is 9).
C7_DecimalValue ==
  (Returned /\ input \in IntegerSources) =>
    /\ Errors(p) = <<>>
    /\ Len(program) = 1
    /\ program[1].node = "ExpressionStatement"
    /\ program[1].Expression.node = "IntegerLiteral"
    /\ program[1].Expression.Value = DecimalValue(input)

\* C8: String() on the Program that ParseProgram returns never faults, also
\* when the parse recorded errors and left partial trees.
C8_PrinterTotal == pc # "panic"

\* the structure of a tree, without the tokens: node variants, operators,
\* names and literal values in their positions
RECURSIVE Shape(_)
RECURSIVE ShapeAll(_)
ShapeAll(nodes) ==
  IF nodes = <<>> THEN <<>> ELSE Shape(Head(nodes)) \o ShapeAll(Tail(nodes))

Shape(n) ==
  CASE n.node = "nil" -> <<"nil">>
    [] n.node = "(*LetStatement)(nil)" -> <<"(*LetStatement)(nil)">>
    [] n.node = "Identifier" -> <<"Identifier", Str(n.Value)>>
    [] n.node = "IntegerLiteral" -> <<"IntegerLiteral", ToString(n.Value)>>
    [] n.node = "Boolean" ->
         <<"Boolean", IF n.Value THEN "true" ELSE "false">>
    [] n.node = "PrefixExpression" ->
         <<"Prefix", Str(n.Operator)>> \o Shape(n.Right) \o <<"end">>
    [] n.node = "InfixExpression" ->
         <<"Infix", Str(n.Operator)>> \o Shape(n.Left) \o Shape(n.Right)
           \o <<"end">>
    [] n.node = "IfExpression" ->
         <<"If">> \o Shape(n.Condition) \o Shape(n.Consequence)
           \o Shape(n.Alternative) \o <<"end">>
    [] n.node = "BlockStatement" ->
         <<"Block">> \o ShapeAll(n.Statements) \o <<"end">>
    [] n.node = "FunctionLiteral" ->
         <<"Function">> \o ShapeAll(n.Parameters) \o <<"body">>
           \o Shape(n.Body) \o <<"end">>
    [] n.node = "LetStatement" ->
         <<"Let">> \o Shape(n.Name) \o Shape(n.Value) \o <<"end">>
    [] n.node = "ReturnStatement" ->
         <<"Return">> \o Shape(n.ReturnValue) \o <<"end">>
    [] n.node = "ExpressionStatement" ->
         <<"ExpressionStatement">> \o Shape(n.Expression) \o <<"end">>

\* the parse of the printed text of an error-free parse has returned
ReparseReturned == pc = "returned" /\ ~prev.first /\ prev.errors = <<>>

RECURSIVE NoIfNoFunction(_)
NoIfNoFunction(n) ==
  CASE n.node \in {"IfExpression", "FunctionLiteral", "BlockStatement"} ->
         FALSE
    [] n.node = "PrefixExpression" -> NoIfNoFunction(n.Right)
    [] n.node = "InfixExpression" ->
         NoIfNoFunction(n.Left) /\ NoIfNoFunction(n.Right)
    [] n.node = "LetStatement" -> NoIfNoFunction(n.Value)
    [] n.node = "ReturnStatement" -> NoIfNoFunction(n.ReturnValue)
    [] n.node = "ExpressionStatement" -> NoIfNoFunction(n.Expression)
    [] OTHER -> TRUE

\* an expression statement that is a bare identifier, integer or boolean:
\* its text neither starts nor ends with a delimiter
BareAtom(stmt) ==
  /\ stmt.node = "ExpressionStatement"
  /\ stmt.Expression.node \in {"Identifier", "IntegerLiteral", "Boolean"}

\* the statements print to a text that separates them again
Separable(statements) ==
  /\ \A i \in 1..Len(statements) : NoIfNoFunction(statements[i])
  /\ \A i \in 1..(Len(statements) - 1) : ~BareAtom(statements[i])

C10_FailedLetLeavesNoEntry ==
  Returned =>
    /\ \A i \in 1..Len(program) :
         program[i] # Nil /\ program[i] # NilLetStatement
    /\ input \in {SrcLetNoName, SrcLetNoAssign, SrcLetIntName} =>
         \A i \in 1..Len(program) : program[i].node # "LetStatement"

(***************************************************************************)
(* A run over the lexer alone: lexer.New(input), then NextToken call after *)
(* call, also past the first EOF.                                          *)
(***************************************************************************)

\* the longest enumerated input of the lexer, in bytes
MaxLexLen == 4

LexAlphabet == { "a", "_", "1", "=", "!", " ", "\"", NUL, "0xC3" }

EnumeratedLexSources ==
  UNION { [1..n -> LexAlphabet] : n \in 0..MaxLexLen }

\* keywords and a plain name, alone and inside longer runs
WordSources ==
  { pre \o w \o suf :
      pre \in { <<>>, <<"x">>, <<"_">> },
      w \in DOMAIN keywords \cup { <<"x">> },
      suf \in { <<>>, <<"x">>, <<"_">>, <<"1">>, <<" ", "x">> } }

StringSources ==
  { <<"\"", "a", " ", "b", "\"", "x">>,
    <<"\"", "a", "\t", "\n", "b", "\"", " ", "1">>,
    <<"\"", "a", "\\", "\"", "b", "\"">>,
    <<"x", "=", "\"", "l", "e", "t", " ", "1">>,
    <<"\"", "0xC3", "0xA9", "\"", ";">> }

WhitespaceSources ==
  { <<"a", "\t", "=", "\n", "1", "\r", ";">>,
    <<"\n", "\t", "l", "e", "t", "\r", "\n">>,
    <<"0xC3", "0xA9">>,
    <<"a", "+", "0xA9", ";">> }

LexSources ==
  EnumeratedLexSources \cup WordSources \cup StringSources
    \cup WhitespaceSources

LexInit ==
  /\ input \in LexSources
  /\ lx = LexerNew(input)
  /\ tokens = <<>>
  /\ pc = "NextToken"
  /\ p = ParserNew(LexerNew(<<>>))
  /\ program = <<>>
  /\ out = Text(<<>>)
  /\ prev = NoPrev
  /\ IdleEval
  /\ IdleRepl

\* the caller stores what a call of l.NextToken() returned
NextTokenReturn(r) ==
  /\ tokens' = Append(tokens, r.tok)
  /\ lx' = r.l

\* one call of l.NextToken()
NextTokenCall ==
  /\ pc = "NextToken"
  /\ lx.readPosition < Len(input) + MaxOverrun
  /\ NextTokenReturn(NextToken(lx))
  /\ UNCHANGED <<input, pc, parseVars, evalVars, replVars>>

LexNext == NextTokenCall

LexSpec == LexInit /\ [][LexNext]_vars

Range(s) == { s[i] : i \in 1..Len(s) }

isWhitespace(ch) == ch \in { " ", "\t", "\n", "\r" }

NotWhitespace(ch) == ~isWhitespace(ch)

\* the literals of the tokens, one after the other
RECURSIVE Literals(_)
Literals(ts) ==
  IF ts = <<>> THEN <<>> ELSE Head(ts).Literal \o Literals(Tail(ts))

\* the calls so far have returned EOF once, with the last call
FirstEOFReturned ==
  /\ pc = "NextToken"
  /\ tokens # <<>>
  /\ tokens[Len(tokens)].Type = EOF
  /\ \A i \in 1..(Len(tokens) - 1) : tokens[i].Type # EOF

\* C11: for every input without a string quote, the literals of the tokens
\* up to the first EOF, one after the other, are the input without its
\* whitespace: each literal is the source text it spans and no byte is
\* dropped or doubled between tokens.
C11_LiteralsAreTheSource ==
  (FirstEOFReturned /\ "\"" \notin Range(input)) =>
    Literals(tokens) = SelectSeq(input, NotWhitespace)

\* the tokens of a text of "=", "!" and spaces, read from left to right with
\* one byte of look-ahead
RECURSIVE OperatorTokens(_)
OperatorTokens(s) ==
  IF s = <<>> THEN << Token(EOF, <<>>) >>
  ELSE IF s[1] = " " THEN OperatorTokens(Tail(s))
  ELSE IF Len(s) >= 2 /\ s[2] = "="
    THEN << Token(IF s[1] = "=" THEN EQ ELSE NOT_EQ, <<s[1], "=">>) >>
           \o OperatorTokens(SubSeq(s, 3, Len(s)))
    ELSE << Token(IF s[1] = "=" THEN ASSIGN ELSE BANG, <<s[1]>>) >>
           \o OperatorTokens(Tail(s))

\* C12: "=" or "!" immediately followed by "=" is one token "==" or "!="
\* that takes both bytes, and otherwise the one-byte token "=" or "!": the
\* tokens of every text of "=", "!" and spaces are those read with exactly
\* one byte of look-ahead ("===" is "==" "=", "!==" is "!=" "=", "= =" is
\* "=" "=").
C12_TwoCharOperators ==
  (FirstEOFReturned /\ Range(input) \subseteq { "=", "!", " " }) =>
    tokens = OperatorTokens(input)

C12_Witness ==
  /\ FirstEOFReturned
  /\ input = <<"=", "=", "=">>
  /\ tokens = << Token(EQ, <<"=", "=">>), Token(ASSIGN, <<"=">>),
                 Token(EOF, <<>>) >>

\* the least index from i on at which s holds a byte of S, Len(s) + 1 if
\* there is none
RECURSIVE FirstIn(_, _, _)
FirstIn(s, i, S) ==
  IF i > Len(s) \/ s[i] \in S THEN i ELSE FirstIn(s, i + 1, S)

\* the least index from i on at which s holds a byte outside S
RECURSIVE FirstNotIn(_, _, _)
FirstNotIn(s, i, S) ==
  IF i > Len(s) \/ s[i] \notin S THEN i ELSE FirstNotIn(s, i + 1, S)

\* the index in the input of the first byte of the token that the next call
\* of NextToken returns: the first byte after the whitespace
TokenStart == FirstNotIn(input, lx.position + 1, { " ", "\t", "\n", "\r" })

\* the step is a call of NextToken on a lexer that has not passed the end of
\* the input
NextTokenStep ==
  /\ pc = "NextToken"
  /\ Len(tokens') = Len(tokens) + 1
  /\ lx.position < Len(input)

\* the token that the call of this step returned
ReturnedToken == tokens'[Len(tokens')]

\* the index of the quote that closes the string opened at TokenStart
ClosingQuote == FirstIn(input, TokenStart + 1, { "\"" })

\* C13: a quote starts a STRING token whose literal is the text between
\* that quote and the next quote, or the end of the input when there is no
\* next quote, whitespace kept and nothing unescaped; after a closed string
\* the lexer stands at the byte after the closing quote, after an unclosed
\* one at the end of the input (the next token is EOF); the slice of the
\* literal lies within the input.
C13_StringLiteral ==
  [][ (NextTokenStep /\ TokenStart <= Len(input)
         /\ input[TokenStart] = "\"") =>
        /\ ReturnedToken =
             Token(STRING_, SubSeq(input, TokenStart + 1, ClosingQuote - 1))
        /\ lx'.position = ClosingQuote
        /\ ClosingQuote > Len(input) => lx'.ch = NUL
        /\ ClosingQuote <= Len(input) =>
             lx'.ch = IF ClosingQuote = Len(input)
                        THEN NUL ELSE input[ClosingQuote + 1]
        /\ TokenStart <= readString(skipWhitespace(lx)).l.position
        /\ readString(skipWhitespace(lx)).l.position <= Len(input)
    ]_vars

\* the kind of a whole run of letters and underscores
KindOfRun(w) ==
  CASE Str(w) = "fn"     -> FUNCTION
    [] Str(w) = "let"    -> LET_
    [] Str(w) = "true"   -> TRUE_
    [] Str(w) = "false"  -> FALSE_
    [] Str(w) = "if"     -> IF_
    [] Str(w) = "else"   -> ELSE_
    [] Str(w) = "return" -> RETURN
    [] OTHER             -> IDENT

\* the index after the run of letters and underscores that starts at
\* TokenStart
RunEnd == FirstNotIn(input, TokenStart, Letters)

\* C14: a letter or underscore starts a token that takes the maximal run of
\* letters and underscores; its kind is a keyword kind only when the whole
\* run is one of fn, let, true, false, if, else, return, and IDENT
\* otherwise; the lexer is left at the byte that ended the run ("letx" and
\* "fn_" are IDENT, "x1" is IDENT "x" then INT "1").
C14_IdentifierMaximalMunch ==
  [][ (NextTokenStep /\ TokenStart <= Len(input)
         /\ input[TokenStart] \in Letters) =>
        /\ ReturnedToken.Literal = SubSeq(input, TokenStart, RunEnd - 1)
        /\ ReturnedToken.Type = KindOfRun(ReturnedToken.Literal)
        /\ lx'.position = RunEnd - 1
    ]_vars

C14_Witness ==
  /\ pc = "NextToken"
  /\ input = <<"x", "1">>
  /\ tokens = << Token(IDENT, <<"x">>), Token(INT, <<"1">>) >>

(***************************************************************************)
(* Calls of p.expectPeek on a parser that stands anywhere in a source.     *)
(***************************************************************************)

\* the kinds the parse functions pass to expectPeek
ExpectedKinds == { IDENT, ASSIGN, LPAREN, RPAREN, LBRACE }

ExpectVocabulary ==
  { <<"a">>, <<"1">>, <<"=">>, <<"(">>, <<")">>, <<"{">> }

ExpectSources ==
  { Join(ws) :
      ws \in UNION { [1..n -> ExpectVocabulary] : n \in 0..MaxTokens } }

\* the most errors a run of expectPeek calls records
MaxErrors == 2

ExpectInit ==
  /\ input \in ExpectSources
  /\ p = ParserNew(LexerNew(input))
  /\ program = <<>>
  /\ pc = "expectPeek"
  /\ out = Text(<<>>)
  /\ prev = NoPrev
  /\ lx = LexerNew(<<>>)
  /\ tokens = <<>>
  /\ IdleEval
  /\ IdleRepl

\* the caller has the parser and the boolean that p.expectPeek(t) returned
ExpectPeekReturn(t, r) ==
  /\ p' = r.p
  /\ ret' = [t |-> t, ok |-> r.ok]

\* one call of p.expectPeek(t)
ExpectPeekCall ==
  /\ pc = "expectPeek"
  /\ Len(p.errors) < MaxErrors
  /\ \E t \in ExpectedKinds : ExpectPeekReturn(t, expectPeek(p, t))
  /\ UNCHANGED <<input, program, pc, out, prev, heap, log, lexVars, replVars>>

ExpectNext == ExpectPeekCall

ExpectSpec == ExpectInit /\ [][ExpectNext]_vars

\* C20: expectPeek(t) has two outcomes.  If the peek token has kind t it
\* returns true, the current token becomes the former peek token, the peek
\* token the next token of the lexer, and the errors are unchanged.
\* Otherwise it returns false, appends the one message "expected next token
\* to be <t>, got <kind of the peek token> instead" and leaves the current
\* token, the peek token and the lexer as they were.
C20_ExpectPeekOutcomes ==
  [][ pc = "expectPeek" =>
        IF p.peekToken.Type = ret'.t
          THEN /\ ret'.ok
               /\ p'.currentToken = p.peekToken
               /\ p'.peekToken = NextToken(p.l).tok
               /\ p'.l = NextToken(p.l).l
               /\ p'.errors = p.errors
          ELSE /\ ~ret'.ok
               /\ p'.errors =
                    Append(p.errors,
                           "expected next token to be " \o ret'.t \o ", got "
                             \o p.peekToken.Type \o " instead")
               /\ p'.currentToken = p.currentToken
               /\ p'.peekToken = p.peekToken
               /\ p'.l = p.l
    ]_vars

\* on "a = 1" a call for ASSIGN has advanced and a call for IDENT has then
\* failed on the INT
C20_Witness ==
  /\ pc = "expectPeek"
  /\ Str(input) = "a = 1"
  /\ ret = [t |-> IDENT, ok |-> FALSE]
  /\ p.currentToken.Type = ASSIGN
  /\ p.errors = << "expected next token to be IDENT, got INT instead" >>

(***************************************************************************)
(* object/object.go: the objects.  An object is a record whose field       *)
(* "type" is what Type() returns.                                          *)
(***************************************************************************)

INTEGER_OBJ      == "INTEGER"
BOOLEAN_OBJ      == "BOOLEAN"
NULL_OBJ         == "NULL"
STRING_OBJ       == "STRING"
RETURN_VALUE_OBJ == "RETURN_VALUE"
ERROR_OBJ        == "ERROR"
FUNCTION_OBJ     == "FUNCTION"

\* the nil object.Object: no object at all
NilObject == [type |-> "nil"]

IntegerObject(value) == [type |-> INTEGER_OBJ, Value |-> value]

BooleanObject(value) == [type |-> BOOLEAN_OBJ, Value |-> value]

NullObject == [type |-> NULL_OBJ]

StringObject(value) == [type |-> STRING_OBJ, Value |-> value]

ReturnValue(value) == [type |-> RETURN_VALUE_OBJ, Value |-> value]

Error(message) == [type |-> ERROR_OBJ, Message |-> message]

\* Env is the index in the heap of the environment the function captured
Function(parameters, body, env) ==
  [type |-> FUNCTION_OBJ, Parameters |-> parameters, Body |-> body,
   Env |-> env]

\* strings.Join(params, ", ") over the String() of the parameters
RECURSIVE JoinParams(_)
JoinParams(params) ==
  IF params = <<>> THEN ""
  ELSE IF Len(params) = 1 THEN Str(Head(params).Value)
  ELSE Str(Head(params).Value) \o ", " \o JoinParams(Tail(params))

RECURSIVE Inspect(_)
Inspect(obj) ==
  CASE obj.type = INTEGER_OBJ      -> ToString(obj.Value)
    [] obj.type = BOOLEAN_OBJ      -> IF obj.Value THEN "true" ELSE "false"
    [] obj.type = NULL_OBJ         -> "null"
    [] obj.type = STRING_OBJ       -> obj.Value
    [] obj.type = RETURN_VALUE_OBJ -> Inspect(obj.Value)
    [] obj.type = ERROR_OBJ        -> "ERROR: " \o obj.Message
    [] obj.type = FUNCTION_OBJ     ->
         "fn" \o "(" \o JoinParams(obj.Parameters) \o ") {\n"
           \o Str(String(obj.Body).s) \o "\n}"

(***************************************************************************)
(* The environments (the object package of the REPL's                      *)
(* object.NewEnvironment()).  An environment is a frame of the heap: its   *)
(* bindings and the index of its parent, 0 for none.                       *)
(***************************************************************************)

NoBindings == [n \in {} |-> NilObject]

\* new_root(): the heap with one more frame, and that frame
NewEnvironment(h) ==
  [heap |-> Append(h, [store |-> NoBindings, outer |-> 0]),
   env |-> Len(h) + 1]

\* new_enclosed(parent)
NewEnclosedEnvironment(h, outer) ==
  [heap |-> Append(h, [store |-> NoBindings, outer |-> outer]),
   env |-> Len(h) + 1]

\* get(name): the binding and whether there is one, [obj, ok]
RECURSIVE Get(_, _, _)
Get(h, env, name) ==
  IF name \in DOMAIN h[env].store
    THEN [obj |-> h[env].store[name], ok |-> TRUE]
    ELSE IF h[env].outer # 0
      THEN Get(h, h[env].outer, name)
      ELSE [obj |-> NilObject, ok |-> FALSE]

\* set(name, value) in a frame whose parent binds the name too writes
\* through to the parent
SetInDefiningFrame(h, env, name, val) ==
  IF h[env].outer # 0 /\ Get(h, h[env].outer, name).ok
    THEN [h EXCEPT ![h[env].outer].store = (name :> val) @@ @]
    ELSE [h EXCEPT ![env].store = (name :> val) @@ @]

\* set(name, value): the heap after the write
Set(h, env, name, val) ==
  [h EXCEPT ![env].store = (name :> val) @@ @]

(***************************************************************************)
(* The evaluator (the evaluator package of the REPL's evaluator.Eval).     *)
(* The state s of an evaluation is the heap and the log; every function    *)
(* returns the state it leaves and the object: [s, obj].                   *)
(***************************************************************************)

Logged(s, e) == [s EXCEPT !.log = Append(@, e)]

Returns(s, obj) == [s |-> s, obj |-> obj]

nativeBoolToBooleanObject(b) == BooleanObject(b)

newError(s, message) ==
  Returns(Logged(s, [ev |-> "Error", message |-> message]), Error(message))

isError(obj) == obj.type = ERROR_OBJ

isTruthy(obj) ==
  CASE obj.type = NULL_OBJ    -> FALSE
    [] obj.type = BOOLEAN_OBJ -> obj.Value
    [] OTHER                  -> TRUE

evalBangOperatorExpression(right) ==
  CASE right.type = BOOLEAN_OBJ -> nativeBoolToBooleanObject(~right.Value)
    [] right.type = NULL_OBJ    -> nativeBoolToBooleanObject(TRUE)
    [] OTHER                    -> nativeBoolToBooleanObject(FALSE)

evalMinusPrefixOperatorExpression(s, right) ==
  IF right.type # INTEGER_OBJ
    THEN newError(s, "unknown operator: -" \o right.type)
    ELSE Returns(s, IntegerObject(0 - right.Value))

evalPrefixExpression(s, operator, right) ==
  CASE operator = "!" -> Returns(s, evalBangOperatorExpression(right))
    [] operator = "-" -> evalMinusPrefixOperatorExpression(s, right)
    [] OTHER -> newError(s, "unknown operator: " \o operator \o right.type)

\* integer division, rounding towards zero
Quotient(a, b) ==
  IF (a >= 0) = (b >= 0)
    THEN (IF a >= 0 THEN a ELSE 0 - a) \div (IF b >= 0 THEN b ELSE 0 - b)
    ELSE 0 - ((IF a >= 0 THEN a ELSE 0 - a) \div (IF b >= 0 THEN b ELSE 0 - b))

evalIntegerInfixExpression(s, operator, left, right) ==
  CASE operator = "+" -> Returns(s, IntegerObject(left.Value + right.Value))
    [] operator = "-" -> Returns(s, IntegerObject(left.Value - right.Value))
    [] operator = "*" -> Returns(s, IntegerObject(left.Value * right.Value))
    [] operator = "/" ->
         IF right.Value = 0
           THEN newError(s, "division by zero")
           ELSE Returns(s, IntegerObject(Quotient(left.Value, right.Value)))
    [] operator = "<" ->
         Returns(s, nativeBoolToBooleanObject(left.Value < right.Value))
    [] operator = ">" ->
         Returns(s, nativeBoolToBooleanObject(left.Value > right.Value))
    [] operator = "==" ->
         Returns(s, nativeBoolToBooleanObject(left.Value = right.Value))
    [] operator = "!=" ->
         Returns(s, nativeBoolToBooleanObject(left.Value # right.Value))
    [] OTHER ->
         newError(s, "unknown operator: " \o left.type \o " " \o operator
                       \o " " \o right.type)

evalInfixExpression(s, operator, left, right) ==
  CASE left.type = INTEGER_OBJ /\ right.type = INTEGER_OBJ ->
         evalIntegerInfixExpression(s, operator, left, right)
    [] left.type = BOOLEAN_OBJ /\ right.type = BOOLEAN_OBJ
         /\ operator = "==" ->
         Returns(s, nativeBoolToBooleanObject(left.Value = right.Value))
    [] left.type = BOOLEAN_OBJ /\ right.type = BOOLEAN_OBJ
         /\ operator = "!=" ->
         Returns(s, nativeBoolToBooleanObject(left.Value # right.Value))
    [] left.type = STRING_OBJ /\ right.type = STRING_OBJ
         /\ operator = "+" ->
         Returns(s, StringObject(left.Value \o right.Value))
    [] left.type # right.type ->
         newError(s, "type mismatch: " \o left.type \o " " \o operator
                       \o " " \o right.type)
    [] OTHER ->
         newError(s, "unknown operator: " \o left.type \o " " \o operator
                       \o " " \o right.type)

RECURSIVE Eval(_, _, _)
RECURSIVE evalProgramLoop(_, _, _)
RECURSIVE evalBlockStatementLoop(_, _, _)
RECURSIVE evalExpressionsLoop(_, _, _, _)

\* Program: an Error ends the loop and so does a ReturnValue, which the
\* Program unwraps
evalProgramNext(rest, env, r) ==
  IF r.obj.type = RETURN_VALUE_OBJ THEN Returns(r.s, r.obj.Value)
  ELSE IF r.obj.type = ERROR_OBJ THEN r
  ELSE evalProgramLoop(rest, env, r)

evalProgramLoop(statements, env, r) ==
  IF statements = <<>> THEN r
  ELSE evalProgramNext(Tail(statements), env,
                       Eval(Head(statements), env, r.s))

evalProgram(statements, env, s) ==
  evalProgramLoop(statements, env, Returns(s, NilObject))

\* the block with the unwrapping of the Program
evalBlockStatementUnwrapping(rest, env, r) ==
  IF r.obj.type = RETURN_VALUE_OBJ THEN Returns(r.s, r.obj.Value)
  ELSE IF r.obj.type = ERROR_OBJ THEN r
  ELSE evalBlockStatementLoop(rest, env, r)

\* Block: an Error and a ReturnValue end the loop and are passed up as they
\* are
evalBlockStatementNext(rest, env, r) ==
  IF r.obj.type = RETURN_VALUE_OBJ \/ r.obj.type = ERROR_OBJ THEN r
  ELSE evalBlockStatementLoop(rest, env, r)

evalBlockStatementLoop(statements, env, r) ==
  IF statements = <<>> THEN r
  ELSE evalBlockStatementNext(Tail(statements), env,
                              Eval(Head(statements), env, r.s))

evalBlockStatement(block, env, s) ==
  evalBlockStatementLoop(block.Statements, env, Returns(s, NilObject))

evalPrefixRight(node, r) ==
  IF isError(r.obj) THEN r
  ELSE evalPrefixExpression(r.s, Str(node.Operator), r.obj)

evalInfixRight(node, left, r) ==
  IF isError(r.obj) THEN r
  ELSE evalInfixExpression(r.s, Str(node.Operator), left, r.obj)

\* the right operand evaluated whether or not the left one is an Error
evalInfixLeftUnchecked(node, env, l) ==
  evalInfixRight(node, l.obj, Eval(node.Right, env, l.s))

evalInfixLeft(node, env, l) ==
  IF isError(l.obj) THEN l
  ELSE evalInfixRight(node, l.obj, Eval(node.Right, env, l.s))

evalIfCondition(node, env, c) ==
  IF isError(c.obj) THEN c
  ELSE IF isTruthy(c.obj) THEN Eval(node.Consequence, env, c.s)
  ELSE IF node.Alternative # Nil THEN Eval(node.Alternative, env, c.s)
  ELSE Returns(c.s, NullObject)

evalReturnValue(v) ==
  IF isError(v.obj) THEN v ELSE Returns(v.s, ReturnValue(v.obj))

\* the binding of a let, in the current environment
evalLetBind(s, env, name, val) ==
  Returns([heap |-> Set(s.heap, env, name, val),
           log |-> Append(s.log, [ev |-> "Set", env |-> env, name |-> name])],
          NullObject)

evalLetValue(node, env, v) ==
  IF isError(v.obj) THEN v
  ELSE evalLetBind(v.s, env, Str(node.Name.Value), v.obj)

evalIdentifierFound(s, name, g) ==
  IF g.ok THEN Returns(s, g.obj)
  ELSE newError(s, "identifier not found: " \o name)

evalIdentifier(node, env, s) ==
  evalIdentifierFound(s, Str(node.Value), Get(s.heap, env, Str(node.Value)))

\* the arguments, from left to right: [s, objs, err]; at the first Error
\* the list is that one Error
evalExpressionsNext(rest, env, objs, r) ==
  IF isError(r.obj) THEN [s |-> r.s, objs |-> <<r.obj>>, err |-> TRUE]
  ELSE evalExpressionsLoop(rest, env, r.s, Append(objs, r.obj))

evalExpressionsLoop(exps, env, s, objs) ==
  IF exps = <<>> THEN [s |-> s, objs |-> objs, err |-> FALSE]
  ELSE evalExpressionsNext(Tail(exps), env, objs, Eval(Head(exps), env, s))

evalExpressions(exps, env, s) == evalExpressionsLoop(exps, env, s, <<>>)

\* the parameters bound to the arguments in the environment e: [heap, env]
RECURSIVE bindParameters(_, _, _)
bindParameters(e, parameters, args) ==
  IF parameters = <<>> THEN e
  ELSE bindParameters(
         [e EXCEPT !.heap = Set(e.heap, e.env, Str(Head(parameters).Value),
                                Head(args))],
         Tail(parameters), Tail(args))

\* a child of the environment outer with the parameters bound
extendEnv(fn, args, outer, h) ==
  bindParameters(NewEnclosedEnvironment(h, outer), fn.Parameters, args)

\* a child of the environment the function captured
extendFunctionEnv(fn, args, h) == extendEnv(fn, args, fn.Env, h)

unwrapReturnValue(r) ==
  IF r.obj.type = RETURN_VALUE_OBJ THEN Returns(r.s, r.obj.Value) ELSE r

\* the body evaluated in the extended environment ext
applyFunctionBody(fn, env, s, ext) ==
  unwrapReturnValue(
    Eval(fn.Body, ext.env,
         [heap |-> ext.heap,
          log |-> Append(s.log, [ev |-> "Call", env |-> ext.env,
                                 caller |-> env, captured |-> fn.Env])]))

\* the function applied in a child of the environment of the caller
applyFunctionInCallerEnv(fn, args, env, s) ==
  IF fn.type # FUNCTION_OBJ
    THEN newError(s, "not a function: " \o fn.type)
  ELSE IF Len(args) # Len(fn.Parameters)
    THEN newError(s, "wrong number of arguments")
  ELSE applyFunctionBody(fn, env, s, extendEnv(fn, args, env, s.heap))

\* env is the environment of the caller
applyFunction(fn, args, env, s) ==
  IF fn.type # FUNCTION_OBJ
    THEN newError(s, "not a function: " \o fn.type)
  ELSE IF Len(args) # Len(fn.Parameters)
    THEN newError(s, "wrong number of arguments")
  ELSE applyFunctionBody(fn, env, s, extendFunctionEnv(fn, args, s.heap))

evalCallArguments(fn, env, a) ==
  IF a.err THEN Returns(a.s, a.objs[1])
  ELSE applyFunction(fn, a.objs, env, a.s)

evalCallFunction(node, env, f) ==
  IF isError(f.obj) THEN f
  ELSE evalCallArguments(f.obj, env,
                         evalExpressions(node.Arguments, env, f.s))

\* the dispatch on the variant of the node
EvalNode(node, env, s) ==
  CASE node.node = "nil" -> Returns(s, NilObject)
    [] node.node = "ExpressionStatement" -> Eval(node.Expression, env, s)
    [] node.node = "IntegerLiteral" -> Returns(s, IntegerObject(node.Value))
    [] node.node = "Boolean" ->
         Returns(s, nativeBoolToBooleanObject(node.Value))
    [] node.node = "PrefixExpression" ->
         evalPrefixRight(node, Eval(node.Right, env, s))
    [] node.node = "InfixExpression" ->
         evalInfixLeft(node, env, Eval(node.Left, env, s))
    [] node.node = "BlockStatement" -> evalBlockStatement(node, env, s)
    [] node.node = "IfExpression" ->
         evalIfCondition(node, env, Eval(node.Condition, env, s))
    [] node.node = "ReturnStatement" ->
         evalReturnValue(Eval(node.ReturnValue, env, s))
    [] node.node = "LetStatement" ->
         evalLetValue(node, env, Eval(node.Value, env, s))
    [] node.node = "Identifier" -> evalIdentifier(node, env, s)
    [] node.node = "FunctionLiteral" ->
         Returns(s, Function(node.Parameters, node.Body, env))
    [] node.node = "CallExpression" ->
         evalCallFunction(node, env, Eval(node.Function, env, s))

\* eval(node, env)
Eval(node, env, s) ==
  EvalNode(node, env,
           Logged(s, [ev |-> "Eval", node |-> node.node, env |-> env]))

(***************************************************************************)
(* Evaluations of Programs, statement after statement, in the one          *)
(* environment of the Program.                                             *)
(***************************************************************************)

\* the trees, as the grammar of the language gives them
Ident(x) == Identifier(Token(IDENT, <<x>>), <<x>>)
Lit(n) == IntegerLiteral(Token(INT, <<ToString(n)>>), n)
True == Boolean(Token(TRUE_, kwTrue), TRUE)
Infix(left, op, right) ==
  InfixExpression(Token(op, <<op>>), left, <<op>>, right)
Let(x, value) == LetStatement(Token(LET_, kwLet), Ident(x), value)
Return(value) == ReturnStatement(Token(RETURN, kwReturn), value)
Expr(e) == ExpressionStatement(e.Token, e)
Block(statements) == BlockStatement(Token(LBRACE, <<"{">>), statements)
Fn(parameters, statements) ==
  FunctionLiteral(Token(FUNCTION, kwFn), parameters, Block(statements))
Call(function, arguments) ==
  CallExpression(Token(LPAREN, <<"(">>), function, arguments)
If(condition, consequence) ==
  IfExpression(Token(IF_, kwIf), condition, Block(consequence), Nil)

\* let a = 1;
StmtLetA == Let("a", Lit(1))
\* let f = fn(x) { x + a };
StmtLetF ==
  Let("f", Fn(<<Ident("x")>>, <<Expr(Infix(Ident("x"), "+", Ident("a")))>>))
\* let g = fn(a) { f(a) };
StmtLetG ==
  Let("g", Fn(<<Ident("a")>>, <<Expr(Call(Ident("f"), <<Ident("a")>>))>>))
\* g(5);
StmtCallG == Expr(Call(Ident("g"), <<Lit(5)>>))
\* let h = fn() { let a = 7; return a; a + 1 };
StmtLetH ==
  Let("h", Fn(<<>>, <<Let("a", Lit(7)), Return(Ident("a")),
                      Expr(Infix(Ident("a"), "+", Lit(1)))>>))
\* h();
StmtCallH == Expr(Call(Ident("h"), <<>>))
\* a;
StmtA == Expr(Ident("a"))
\* b + h();
StmtUnbound == Expr(Infix(Ident("b"), "+", Call(Ident("h"), <<>>)))
\* return a;
StmtReturnA == Return(Ident("a"))

Statements ==
  { StmtLetA, StmtLetF, StmtLetG, StmtCallG, StmtLetH, StmtCallH, StmtA,
    StmtUnbound, StmtReturnA }

\* the longest enumerated Program, in statements
MaxStatements == 3

EnumeratedPrograms ==
  UNION { [1..n -> Statements] : n \in 0..MaxStatements }

\* let newAdder = fn(x) { fn(y) { x + y; }; };
\* let addTwo = newAdder(2); addTwo(3);
ProgNewAdder ==
  << Let("newAdder",
         Fn(<<Ident("x")>>,
            <<Expr(Fn(<<Ident("y")>>,
                      <<Expr(Infix(Ident("x"), "+", Ident("y")))>>))>>)),
     Let("addTwo", Call(Ident("newAdder"), <<Lit(2)>>)),
     Expr(Call(Ident("addTwo"), <<Lit(3)>>)) >>

\* let a = 1; let f = fn(x) { x + a }; let g = fn(a) { f(a) }; g(5);
ProgLexical == << StmtLetA, StmtLetF, StmtLetG, StmtCallG >>

\* let f = fn() { z }; let g = fn(z) { f() }; g(1);
ProgCallerScope ==
  << Let("f", Fn(<<>>, <<Expr(Ident("z"))>>)),
     Let("g", Fn(<<Ident("z")>>, <<Expr(Call(Ident("f"), <<>>))>>)),
     Expr(Call(Ident("g"), <<Lit(1)>>)) >>

\* if (10 > 1) { if (10 > 1) { return 10; } return 1; }
ProgNestedReturn ==
  << Expr(If(Infix(Lit(10), ">", Lit(1)),
             << Expr(If(Infix(Lit(10), ">", Lit(1)), <<Return(Lit(10))>>)),
                Return(Lit(1)) >>)) >>

\* let f = fn() { if (true) { return 1; } 2 }; let r = f(); r + 10;
ProgReturnInCall ==
  << Let("f", Fn(<<>>, << Expr(If(True, <<Return(Lit(1))>>)),
                          Expr(Lit(2)) >>)),
     Let("r", Call(Ident("f"), <<>>)),
     Expr(Infix(Ident("r"), "+", Lit(10))) >>

\* let a = 1; let h = fn() { let a = 7; a }; h(); a;
ProgShadow ==
  << StmtLetA,
     Let("h", Fn(<<>>, <<Let("a", Lit(7)), Expr(Ident("a"))>>)),
     StmtCallH, StmtA >>

\* let k = fn(x, y) { x }; k(b, k(1, 2));
ProgArgumentError ==
  << Let("k", Fn(<<Ident("x"), Ident("y")>>, <<Expr(Ident("x"))>>)),
     Expr(Call(Ident("k"),
               <<Ident("b"), Call(Ident("k"), <<Lit(1), Lit(2)>>)>>)) >>

\* let c = -b; c;
ProgLetError ==
  << Let("c", PrefixExpression(Token(MINUS, <<"-">>), <<"-">>, Ident("b"))),
     Expr(Ident("c")) >>

Programs ==
  EnumeratedPrograms \cup
    { ProgNewAdder, ProgLexical, ProgCallerScope, ProgNestedReturn,
      ProgReturnInCall, ProgShadow, ProgArgumentError, ProgLetError }

EvalInit ==
  /\ program \in Programs
  /\ heap = NewEnvironment(<<>>).heap
  /\ ret = [i |-> 0, obj |-> NilObject]
  /\ log = <<>>
  /\ pc = "Eval"
  /\ input = <<>>
  /\ p = ParserNew(LexerNew(<<>>))
  /\ out = Text(<<>>)
  /\ prev = NoPrev
  /\ lx = LexerNew(<<>>)
  /\ tokens = <<>>
  /\ IdleRepl

\* the rest of an iteration of the loop over the statements of the Program,
\* once Eval has returned r
EvalStatementReturn(r) ==
  /\ heap' = r.s.heap
  /\ log' = r.s.log
  /\ ret' = [i |-> ret.i + 1,
             obj |-> IF r.obj.type = RETURN_VALUE_OBJ
                       THEN r.obj.Value ELSE r.obj]
  /\ pc' = IF r.obj.type = RETURN_VALUE_OBJ \/ r.obj.type = ERROR_OBJ
             THEN "evaluated" ELSE pc

\* one statement of the Program is evaluated
EvalProgramStep ==
  /\ pc = "Eval"
  /\ ret.i < Len(program)
  /\ EvalStatementReturn(
       Eval(program[ret.i + 1], 1, [heap |-> heap, log |-> log]))
  /\ UNCHANGED <<input, program, parseVars, lexVars, replVars>>

\* the statements are through and the last result is returned
EvalProgramReturn ==
  /\ pc = "Eval"
  /\ ret.i = Len(program)
  /\ pc' = "evaluated"
  /\ UNCHANGED <<input, program, parseVars, lexVars, evalVars, replVars>>

EvalNext == EvalProgramStep \/ EvalProgramReturn

EvalSpec == EvalInit /\ [][EvalNext]_vars

\* the Program has been evaluated
Evaluated == pc = "evaluated"

IsInteger(obj, n) == obj.type = INTEGER_OBJ /\ obj.Value = n

IsErrorWith(obj, message) == obj.type = ERROR_OBJ /\ obj.Message = message

\* C16: a call evaluates the body in a new child environment of the
\* environment the function captured when its literal was evaluated, never
\* of the environment of the caller: a function called from another
\* environment finds its free names where it was defined (addTwo(3) is 5),
\* and a name bound only in the scope of the caller is not found.
C16_LexicalScoping ==
  /\ \A i \in 1..Len(log) :
       log[i].ev = "Call" =>
         /\ heap[log[i].env].outer = log[i].captured
         /\ log[i].env > log[i].caller
  /\ Evaluated =>
       /\ program = ProgNewAdder => IsInteger(ret.obj, 5)
       /\ program = ProgLexical => IsInteger(ret.obj, 6)
       /\ program = ProgCallerScope =>
            IsErrorWith(ret.obj, "identifier not found: z")

\* addTwo has been called from the environment of the Program and has run
\* in a child of the environment of the call newAdder(2)
C16_Witness ==
  /\ Evaluated
  /\ program = ProgNewAdder
  /\ IsInteger(ret.obj, 5)
  /\ \E i \in 1..Len(log) :
       log[i].ev = "Call" /\ log[i].caller = 1 /\ log[i].captured = 2

\* C17: a return goes up through every enclosing block as a ReturnValue and
\* ends each of them, and is unwrapped once, at the nearest call or at the
\* Program: no result of a Program and no binding is a ReturnValue, the
\* nested-if Program yields 10, the statement after a return in a body is
\* not evaluated (h() is 7), a return in a called function ends that call
\* only (the Program goes on after the call, r + 10 is 11), and a Program
\* ends early only on a return statement of its own or on an Error.
C17_ReturnUnwinding ==
  /\ ret.obj.type # RETURN_VALUE_OBJ
  /\ \A e \in 1..Len(heap) : \A n \in DOMAIN heap[e].store :
       heap[e].store[n].type # RETURN_VALUE_OBJ
  /\ (ret.i >= 1 /\ program[ret.i].node = "ReturnStatement") => Evaluated
  /\ Evaluated =>
       /\ ret.i < Len(program) =>
            \/ ret.obj.type = ERROR_OBJ
            \/ program[ret.i].node = "ReturnStatement"
       /\ program = ProgNestedReturn => IsInteger(ret.obj, 10)
       /\ program = ProgReturnInCall => IsInteger(ret.obj, 11)
       /\ program = <<StmtLetH, StmtCallH>> => IsInteger(ret.obj, 7)
       /\ program = <<StmtLetH, StmtCallH, StmtLetA>> =>
            ret.i = 3 /\ ret.obj = NullObject

C17_Witness ==
  /\ Evaluated
  /\ program = ProgNestedReturn
  /\ IsInteger(ret.obj, 10)

\* C18: an Error ends the evaluation: nothing is evaluated, bound or called
\* after the first Error, and the Program returns that Error.  So the right
\* operand is not evaluated after a left operand that is an Error, the
\* later arguments of a call are not evaluated and its body is not entered,
\* and a let whose value is an Error binds nothing.
C18_ErrorShortCircuit ==
  /\ \A i \in 1..Len(log) :
       log[i].ev = "Error" =>
         /\ i = Len(log)
         /\ Evaluated
         /\ IsErrorWith(ret.obj, log[i].message)
  /\ ret.obj.type = ERROR_OBJ =>
       /\ log # <<>>
       /\ log[Len(log)].ev = "Error"
       /\ log[Len(log)].message = ret.obj.Message
  /\ (Evaluated /\ program = ProgLetError) =>
       /\ IsErrorWith(ret.obj, "identifier not found: b")
       /\ "c" \notin DOMAIN heap[1].store
  /\ (Evaluated /\ program = ProgArgumentError) =>
       /\ IsErrorWith(ret.obj, "identifier not found: b")
       /\ Len(heap) = 1

\* the first argument of k(b, k(1, 2)) is an Error: no call took place
C18_Witness ==
  /\ Evaluated
  /\ program = ProgArgumentError
  /\ IsErrorWith(ret.obj, "identifier not found: b")
  /\ \A i \in 1..Len(log) : log[i].ev # "Call"

\* the environments from env up to the root, nearest first
RECURSIVE Chain(_, _)
Chain(h, env) == IF env = 0 THEN <<>> ELSE <<env>> \o Chain(h, h[env].outer)

\* the places in the chain of env whose frame binds the name
Binders(h, env, name) ==
  { i \in 1..Len(Chain(h, env)) : name \in DOMAIN h[Chain(h, env)[i]].store }

\* the least element of a non-empty set of numbers
Least(S) == CHOOSE i \in S : \A j \in S : i <= j

ProbeNames == { "a", "x", "h", "none" }

ProbeValue == StringObject("probe")

\* C19: set(name, value) changes the frame of its environment only and
\* leaves those of all others, its ancestors among them, as they are (a let
\* in a body that reuses an outer name leaves the outer binding intact);
\* get(name) is the binding of the nearest frame of the parent chain that
\* binds the name, and absent if none does; the parent of every environment
\* was created before it, so that every chain is finite and has no cycle.
C19_EnvironmentFrames ==
  /\ \A e \in 1..Len(heap) : heap[e].outer \in 0..(e - 1)
  /\ \A e \in 1..Len(heap), name \in ProbeNames :
       /\ \A e2 \in 1..Len(heap) :
            e2 # e => Set(heap, e, name, ProbeValue)[e2] = heap[e2]
       /\ Len(Set(heap, e, name, ProbeValue)) = Len(heap)
       /\ Set(heap, e, name, ProbeValue)[e].outer = heap[e].outer
       /\ DOMAIN Set(heap, e, name, ProbeValue)[e].store
            = DOMAIN heap[e].store \cup { name }
       /\ \A n \in DOMAIN heap[e].store \ { name } :
            Set(heap, e, name, ProbeValue)[e].store[n] = heap[e].store[n]
       /\ Get(Set(heap, e, name, ProbeValue), e, name).ok
       /\ Get(Set(heap, e, name, ProbeValue), e, name).obj = ProbeValue
       /\ Get(heap, e, name).ok = (Binders(heap, e, name) # {})
       /\ Binders(heap, e, name) # {} =>
            Get(heap, e, name).obj =
              heap[Chain(heap, e)[Least(Binders(heap, e, name))]].store[name]
  /\ (program = ProgShadow /\ ret.i >= 3) =>
       /\ IsInteger(heap[1].store["a"], 1)
       /\ IsInteger(heap[2].store["a"], 7)
       /\ ret.i = 3 => IsInteger(ret.obj, 7)
       /\ ret.i = 4 => IsInteger(ret.obj, 1)

\* h() has bound a in its own frame, and the Program still reads its own a
C19_Witness ==
  /\ Evaluated
  /\ program = ProgShadow
  /\ IsInteger(ret.obj, 1)
  /\ IsInteger(heap[2].store["a"], 7)
  /\ heap[2].outer = 1

(***************************************************************************)
(* repl/repl.go: Start reads line after line, parses each with a new lexer *)
(* and a new parser, and writes the parser's errors or evaluates the       *)
(* Program in the one environment made before the loop.                    *)
(*                                                                         *)
(*   lines    the lines of the reader and how many of them were read       *)
(*   stdout   what was written to the writer so far                        *)
(*   input, p, program   the line being parsed, its parser and Program     *)
(*   heap, log, ret      the environments, the evaluator's events and the  *)
(*                       last result                                       *)
(***************************************************************************)

PROMPT == ">> "

\* let a = 5;
LineLetA == Join(<<kwLet, <<"a">>, <<"=">>, <<"5">> >>) \o <<";">>
\* let a = 5
LineLetNoSemicolon == Join(<<kwLet, <<"a">>, <<"=">>, <<"5">> >>)
\* a
LineA == <<"a">>
\* b
LineB == <<"b">>
\* 5 + 5
LineSum == Join(<< <<"5">>, <<"+">>, <<"5">> >>)
\* !5
LineNot == <<"!", "5">>
\* let
LineLet == kwLet
\* 5 +
LineOperator == Join(<< <<"5">>, <<"+">> >>)

ReplLines ==
  { LineLetA, LineLetNoSemicolon, LineA, LineB, LineSum, LineNot, LineLet,
    LineOperator, <<>> }

\* the most lines the reader holds
MaxLines == 2

ReplInit ==
  /\ lines \in { [text |-> t, read |-> 0] :
                   t \in UNION { [1..n -> ReplLines] : n \in 0..MaxLines } }
  /\ stdout = ""
  /\ heap = NewEnvironment(<<>>).heap
  /\ log = <<>>
  /\ ret = [i |-> 0, obj |-> NilObject]
  /\ pc = "Start"
  /\ input = <<>>
  /\ p = ParserNew(LexerNew(<<>>))
  /\ program = <<>>
  /\ out = Text(<<>>)
  /\ prev = NoPrev
  /\ lx = LexerNew(<<>>)
  /\ tokens = <<>>

\* the prompt is written and scanner.Scan() yields the next line: a lexer
\* and a parser are made for it and ParseProgram is called
ReplScan ==
  /\ pc = "Start"
  /\ lines.read < Len(lines.text)
  /\ stdout' = stdout \o PROMPT
  /\ lines' = [lines EXCEPT !.read = @ + 1]
  /\ input' = lines.text[lines.read + 1]
  /\ p' = ParserNew(LexerNew(lines.text[lines.read + 1]))
  /\ program' = <<>>
  /\ pc' = "ParseProgram"
  /\ UNCHANGED <<out, prev, lexVars, evalVars>>

\* the prompt is written, scanner.Scan() yields no line and Start returns
ReplReturn ==
  /\ pc = "Start"
  /\ lines.read = Len(lines.text)
  /\ stdout' = stdout \o PROMPT
  /\ pc' = "exit"
  /\ UNCHANGED <<input, lines, parseVars, lexVars, evalVars>>

\* the text that printParserErrors writes
RECURSIVE printParserErrors(_)
printParserErrors(errors) ==
  IF errors = <<>> THEN ""
  ELSE "\t" \o Head(errors) \o "\n" \o printParserErrors(Tail(errors))

\* the parser has recorded errors: they are written and the loop goes on
ReplPrintParserErrors ==
  /\ pc = "returned"
  /\ Len(Errors(p)) # 0
  /\ stdout' = stdout \o printParserErrors(Errors(p))
  /\ pc' = "Start"
  /\ UNCHANGED <<input, lines, parseVars, lexVars, evalVars>>

\* what is written for the result of evaluator.Eval
WriteEvaluated(r) ==
  /\ heap' = r.s.heap
  /\ log' = r.s.log
  /\ ret' = [i |-> Len(program), obj |-> r.obj]
  /\ stdout' = IF r.obj # NilObject
                 THEN stdout \o Inspect(r.obj) \o "\n"
                 ELSE stdout

\* no errors: the Program is evaluated in env and its result, unless nil,
\* is written
ReplEval ==
  /\ pc = "returned"
  /\ Len(Errors(p)) = 0
  /\ WriteEvaluated(evalProgram(program, 1, [heap |-> heap, log |-> log]))
  /\ pc' = "Start"
  /\ UNCHANGED <<input, lines, parseVars, lexVars>>

ReplNext ==
  \/ ReplScan
  \/ ReplReturn
  \/ ParseProgramStep
  \/ ParseProgramReturn
  \/ SkipUntilSemicolonStep
  \/ ReplPrintParserErrors
  \/ ReplEval

ReplSpec == ReplInit /\ [][ReplNext]_vars

\* the names bound in the environment of the REPL
Bound == DOMAIN heap[1].store

\* C15: the prompt is written before each read; every line that is read is
\* parsed and then either reported or evaluated; when the parser recorded
\* errors, they alone are written, each after a tab and before a newline,
\* and nothing is evaluated and no environment changes; when it recorded
\* none, the Program is evaluated in the environment made at start-up,
\* which keeps the bindings of the lines before.
C15_ReplLineHandling ==
  [][ /\ pc = "Start" => stdout' = stdout \o PROMPT
      /\ pc = "ParseProgram" => pc' \in { "ParseProgram", "returned" }
      /\ (pc = "returned" /\ Errors(p) # <<>>) =>
           /\ stdout' = stdout \o printParserErrors(Errors(p))
           /\ UNCHANGED <<heap, log>>
      /\ (pc = "returned" /\ Errors(p) = <<>>) =>
           /\ heap'[1].outer = 0
           /\ Bound \subseteq Bound'
           /\ \A n \in Bound : heap'[1].store[n] = heap[1].store[n]
                \/ \E i \in (Len(log) + 1)..Len(log') :
                     log'[i] = [ev |-> "Set", env |-> 1, name |-> n]
           /\ program # <<>> =>
                /\ Len(log') > Len(log)
                /\ log'[Len(log) + 1].ev = "Eval"
                /\ log'[Len(log) + 1].env = 1
    ]_vars

(***************************************************************************)
(* Properties of the parser's handler tables and of the end of the input   *)
(***************************************************************************)

Precedences == { LOWEST, EQUALS, LESSGREATER, SUM, PRODUCT, PREFIX, CALL }

\* the current token of the parser has no prefix handler
NoPrefixHandler(p_) == p_.currentToken.Type \notin DOMAIN p_.prefixParseFns

\* the message of noPrefixParseFnError for the current token
NoPrefixMessage(p_) ==
  "no prefix parse function for " \o p_.currentToken.Type \o " found"

\* the parser with one more error and nothing else changed
WithError(p_, msg) == [p_ EXCEPT !.errors = Append(@, msg)]

\* ParseProgram is about to parse an expression statement and the current
\* token has no prefix handler
AtUnhandledToken ==
  /\ pc = "ParseProgram"
  /\ ~curTokenIs(p, EOF)
  /\ p.currentToken.Type \notin { LET_, RETURN }
  /\ NoPrefixHandler(p)

\* on every parser a run reaches whose current token has no prefix handler,
\* parseExpression at any precedence adds the one error, yields nil and
\* leaves the lexer and both tokens where they were
C21_ParseExpressionNoPrefix ==
  (~p.hung /\ NoPrefixHandler(p)) =>
    \A precedence \in Precedences :
      /\ parseExpression(p, precedence).node = Nil
      /\ parseExpression(p, precedence).p = WithError(p, NoPrefixMessage(p))

\* the iteration of ParseProgram on such a token: the error is recorded,
\* the statement has no expression, and the parser moves on by the one token
\* (and the ";" after it, if there is one) and no further
C21_StatementNoPrefix ==
  AtUnhandledToken =>
    /\ Errors(p') = Append(Errors(p), NoPrefixMessage(p))
    /\ program' = Append(program, ExpressionStatement(p.currentToken, Nil))
    /\ p' = IF peekTokenIs(p, SEMICOLON)
              THEN nextToken(nextToken(WithError(p, NoPrefixMessage(p))))
              ELSE nextToken(WithError(p, NoPrefixMessage(p)))
    /\ pc' = "ParseProgram"

\* "let a = 1; a = 2;": the one error is that of "=", and a and 2 are
\* statements of the Program
C21_LetThenAssign ==
  (Returned /\ input = SrcLetThenAssign) =>
    /\ Errors(p) = << "no prefix parse function for = found" >>
    /\ Len(program) = 4
    /\ program[1].node = "LetStatement"
    /\ program[2].node = "ExpressionStatement"
    /\ program[2].Expression.node = "Identifier"
    /\ program[2].Expression.Value = <<"a">>
    /\ program[3] = ExpressionStatement(Token(ASSIGN, <<"=">>), Nil)
    /\ program[4].node = "ExpressionStatement"
    /\ program[4].Expression.node = "IntegerLiteral"
    /\ program[4].Expression.Value = 2

\* C21: parseExpression on a current token without a prefix handler adds
\* exactly the error "no prefix parse function for <kind> found", returns
\* nil and consumes no token, and the parse goes on with the tokens that
\* follow; "let a = 1; a = 2;" records that error for "=" and no other, and
\* the tokens after "=" are parsed as statements.
C21_NoPrefixHandler ==
  /\ [](C21_ParseExpressionNoPrefix /\ C21_LetThenAssign)
  /\ [][C21_StatementNoPrefix]_vars

C21_Witness ==
  /\ Returned
  /\ input = SrcLetThenAssign
  /\ Errors(p) = << "no prefix parse function for = found" >>
  /\ Len(program) = 4

\* the kinds that have a prefix handler, as the language defines them
PrefixKinds ==
  { IDENT, INT, STRING_, BANG, MINUS, LPAREN, IF_, FUNCTION, TRUE_, FALSE_ }

\* C22: from the return of the parser's constructor on, the kinds with a
\* prefix handler are exactly IDENT, INT, STRING, !, -, (, if, fn, true and
\* false, no parsing operation changes the handler tables, and a STRING
\* token in expression position parses, with no error, to a string literal
\* with the text between the quotes.
C22_PrefixHandlers ==
  /\ [](DOMAIN p.prefixParseFns = PrefixKinds)
  /\ []((Returned /\ input = SrcString) =>
          /\ Errors(p) = <<>>
          /\ Len(program) = 1
          /\ program[1].node = "ExpressionStatement"
          /\ program[1].Expression # Nil
          /\ program[1].Expression.node = "StringLiteral"
          /\ program[1].Expression.Value = <<"a">>)
  /\ [][/\ p'.prefixParseFns = p.prefixParseFns
        /\ p'.infixParseFns = p.infixParseFns]_vars

\* the parser after n calls of nextToken
RECURSIVE Advanced(_, _)
Advanced(p_, n) == IF n = 0 THEN p_ ELSE nextToken(Advanced(p_, n - 1))

\* the token that the call of this step returns
LastToken(ts) == ts[Len(ts)]

\* a call of NextToken that returns EOF: the literal is empty and the lexer
\* has read every byte of the input; and after an EOF every call returns EOF
C23_NextTokenEOF ==
  /\ LastToken(tokens').Type = EOF =>
       /\ LastToken(tokens').Literal = <<>>
       /\ lx'.position > Len(input)
  /\ (tokens # <<>> /\ LastToken(tokens).Type = EOF) =>
       LastToken(tokens') = Token(EOF, <<>>)

\* a parser on the input whose current token is EOF keeps EOF as its current
\* token when it is advanced
C23_ParserStaysAtEOF ==
  \A n \in 0..(Len(input) + 1) :
    curTokenIs(Advanced(ParserNew(LexerNew(input)), n), EOF) =>
      curTokenIs(Advanced(ParserNew(LexerNew(input)), n + 1), EOF)

\* C23: on every input, NextToken returns EOF, with the empty literal, only
\* when every byte of the input has been consumed, and after it has
\* returned EOF every later call returns EOF with the empty literal; so a
\* parser whose current token is EOF stays at EOF when it advances.
C23_EOFAbsorbing ==
  /\ [][C23_NextTokenEOF]_vars
  /\ [](tokens = <<>> => C23_ParserStaysAtEOF)

\* the statement is an expression statement that holds a function literal
IsFunctionLiteral(stmt) ==
  /\ stmt.node = "ExpressionStatement"
  /\ stmt.Expression # Nil
  /\ stmt.Expression.node = "FunctionLiteral"

\* the values of the identifiers of a list, in order
ParameterNames(parameters) ==
  [ i \in 1..Len(parameters) |-> parameters[i].Value ]

\* C24: every parameter of a function literal is an Identifier built from
\* an IDENT token, in source order, and "fn()" has the empty list; a list
\* with another token in parameter position, as in "fn(1, 2) {}" and
\* "fn(x,) {}", gives no parameter named after that token and records a
\* parse error.
C24_ParametersAreIdentifiers ==
  /\ \A i \in 1..Len(program) :
       IsFunctionLiteral(program[i]) =>
         \A j \in 1..Len(program[i].Expression.Parameters) :
           /\ program[i].Expression.Parameters[j].node = "Identifier"
           /\ program[i].Expression.Parameters[j].Token.Type = IDENT
           /\ program[i].Expression.Parameters[j].Value
                = program[i].Expression.Parameters[j].Token.Literal
  /\ (Returned /\ input = SrcFn) =>
       /\ Errors(p) = <<>>
       /\ IsFunctionLiteral(program[1])
       /\ ParameterNames(program[1].Expression.Parameters)
            = << <<"x">>, <<"y">> >>
  /\ (Returned /\ input = SrcFnNoParams) =>
       /\ Errors(p) = <<>>
       /\ IsFunctionLiteral(program[1])
       /\ program[1].Expression.Parameters = <<>>
  /\ (Returned /\ input \in { SrcFnIntParams, SrcFnTrailingComma }) =>
       Errors(p) # <<>>

====
